---- MODULE Spec2Model ----
(***************************************************************************)
(* Model of package captcha of svg-captcha: the color manager, the noise    *)
(* generator, the SVG renderer, the configuration, the math expression     *)
(* generator and the CaptchaGenerator.                                     *)
(*                                                                         *)
(* Real numbers (float64) are fixed-point integers: one unit is FScale.    *)
(* Every constant of the code (0.6, 1/3, 0.5, 1.5, ...) times FScale is an *)
(* integer, and so is every value secureRandomFloat can return.            *)
(*                                                                         *)
(* The process-wide random source (crypto/rand.Reader) is a cyclic tape of *)
(* outcomes, chosen arbitrarily in Init; every call of rand.Int reads the  *)
(* next entry, which is a failure or a quantile of the range [0, max).     *)
(***************************************************************************)
EXTENDS Integers, Sequences, FiniteSets, TLC

VARIABLES
    tape,       \* outcomes of the random source, read cyclically
    rpos,       \* position of the next draw on the tape
    sr,         \* the SVGRenderer (width, height, fontSize, colorMgr)
    pc,         \* per render call: idle, text, noise, marshal, done
    config,     \* the *Config argument of the render calls
    question,   \* expr.Question argument of the render calls
    yOffset,    \* per call: local yOffset of addTextToSVG
    svg,        \* per call: the *SVGElement under construction
    data,       \* per call: the string returned by RenderMathExpression
    noiseImpl,  \* which GenerateLines of the repository is built in
    err,        \* per call: the error returned by RenderMathExpression
    cg,         \* the CaptchaGenerator (config, mathGen, svgRenderer, mutex)
    gor,        \* per goroutine: its call, position and local variables
    probe       \* a function called on its own: its input and its result;
                \* the heap of a client; the state of the example server

vars == <<tape, rpos, sr, pc, config, question, yOffset, svg, data, noiseImpl,
          err, cg, gor, probe>>

\* the state of the render calls, and the state outside them
renderVars == <<sr, pc, config, question, yOffset, svg, data, noiseImpl, err>>
genVars    == <<cg, gor, probe>>

(***************************************************************************)
(* Bounds of the model.                                                    *)
(***************************************************************************)
TapeLen == 5
MaxNoise == 2

\* the greatest noise level Config.Validate accepts
NoiseLimit == 10

\* the greatest count of GenerateMultiple in the model, and the greatest
\* count GenerateMultiple accepts
MaxCount == 2
BatchLimit == 100

\* the greatest number of calls of the client of a generator
MaxOps == 4

\* the greatest number of requests the example server handles
MaxRequests == 3

\* the greatest reading of the clock of the example server, in minutes
MaxClock == 6

\* ExpiresAt: time.Now().Add(5 * time.Minute)
SessionLife == 5

\* secureRandomFloat draws one of RandSteps equidistant values of its range
RandSteps == 10000

\* the fixed-point unit: 6 makes 0.6, 1/3, 0.5 and 1.5 units whole numbers,
\* RandSteps makes every step of secureRandomFloat a whole number
FScale == 6 * RandSteps

Calls == {1, 2}

Abs(x) == IF x < 0 THEN -x ELSE x

(***************************************************************************)
(* Strings are sequences of one-character strings.                         *)
(***************************************************************************)
Digits == <<"0", "1", "2", "3", "4", "5", "6", "7", "8", "9">>

RECURSIVE ItoaNat(_)
ItoaNat(n) == IF n < 10 THEN <<Digits[n + 1]>>
              ELSE ItoaNat(n \div 10) \o <<Digits[(n % 10) + 1]>>

\* fmt's %d verb, strconv.Itoa
Itoa(n) == IF n < 0 THEN <<"-">> \o ItoaNat(-n) ELSE ItoaNat(n)

\* strings.Index: the least 0-based index of pat in s, or -1
Index(s, pat) ==
    LET hits == {i \in 0..(Len(s) - Len(pat)) :
                    SubSeq(s, i + 1, i + Len(pat)) = pat}
    IN IF hits = {} THEN -1
       ELSE CHOOSE i \in hits : \A j \in hits : i <= j

\* strings.Replace(s, old, new, 1): replaces the first occurrence only
Replace1(s, old, new) ==
    LET i == Index(s, old)
    IN IF i < 0 THEN s
       ELSE SubSeq(s, 1, i) \o new \o SubSeq(s, i + Len(old) + 1, Len(s))

(***************************************************************************)
(* Configuration.                                                          *)
(***************************************************************************)
DefaultConfig ==
    [MathMin |-> 1, MathMax |-> 9, MathOperator |-> <<"+">>,
     Width |-> 150, Height |-> 50, FontSize |-> 20, Noise |-> 1,
     Color |-> TRUE, Background |-> "#f0f0f0", IgnoreChars |-> "0o1i"]

\* the configuration of TestCaptchaGeneratorCustomConfig
CustomConfig ==
    [MathMin |-> 5, MathMax |-> 15, MathOperator |-> <<"+", "-">>,
     Width |-> 200, Height |-> 80, FontSize |-> 24, Noise |-> 3,
     Color |-> FALSE, Background |-> "#ffffff", IgnoreChars |-> ""]

WithNoise(cfg, n) == [cfg EXCEPT !.Noise = n]

\* fmt.Sprintf("%d + %d = ?", a, b) and fmt.Sprintf("%d - %d = ?", a, b)
Question(a, op, b) ==
    Itoa(a) \o <<" ", op, " ">> \o Itoa(b) \o <<" ", "=", " ", "?">>

\* the arguments of the render calls: RenderMathExpression does not
\* validate its configuration, so the noise level may be below zero
Workloads ==
    {<<DefaultConfig, Question(3, "+", 5)>>,
     <<WithNoise(DefaultConfig, MaxNoise), Question(12, "-", 7)>>,
     <<WithNoise(CustomConfig, MaxNoise), Question(3, "+", 5)>>,
     <<WithNoise(CustomConfig, 0), Question(12, "-", 7)>>,
     <<WithNoise(CustomConfig, -1), Question(3, "+", 5)>>}

\* the configuration the renderer is constructed from, and the GenerateLines
\* built in
Builds == {<<DefaultConfig, "line">>, <<CustomConfig, "path">>}

(***************************************************************************)
(* The random source.                                                      *)
(***************************************************************************)
\* an outcome of rand.Int(rand.Reader, max): a failure (-1), or the least (0),
\* the middle (1) or the greatest (2) value of [0, max)
Outcomes == {-1, 0, 1, 2}

\* the tapes of the model: every pattern of failures, least and greatest
\* values, and every pattern of failures and middle values
Tapes == [1..TapeLen -> {-1, 0, 2}] \cup [1..TapeLen -> {-1, 1}]

TapeAt(p) == tape[(p % TapeLen) + 1]

\* secureRandomInt(max) called when the tape is at p: value, error and the
\* tape position after the call
secureRandomInt(max, p) ==
    IF max <= 0 THEN [val |-> 0, err |-> TRUE, pos |-> p]
    ELSE IF TapeAt(p) < 0 THEN [val |-> 0, err |-> TRUE, pos |-> p + 1]
    ELSE [val |-> (TapeAt(p) * (max - 1)) \div 2,
          err |-> FALSE, pos |-> p + 1]

\* secureRandomFloat(min, max), min and max in fixed point:
\* min + (float64(randInt)/10000.0)*range_.  The range of every call in the
\* code is a multiple of RandSteps in fixed point (widths and heights of the
\* model are multiples of 5), so dividing first loses nothing and keeps
\* the product small.
secureRandomFloat(min, max, p) ==
    IF min >= max THEN [val |-> min, err |-> FALSE, pos |-> p]
    ELSE LET ri == secureRandomInt(RandSteps, p)
         IN IF ri.err THEN [val |-> min, err |-> TRUE, pos |-> ri.pos]
            ELSE [val |-> min + ri.val * ((max - min) \div RandSteps),
                  err |-> FALSE, pos |-> ri.pos]

(***************************************************************************)
(* ColorManager.                                                           *)
(***************************************************************************)
ColorTextColors ==
    <<"#1a1a1a", "#2c3e50", "#34495e", "#7f8c8d",
      "#c0392b", "#e74c3c", "#d35400", "#e67e22",
      "#16a085", "#27ae60", "#2980b9", "#8e44ad">>

ColorNoiseColors ==
    <<"#bdc3c7", "#95a5a6", "#ecf0f1", "#d5dbdb",
      "#f8c471", "#f7dc6f", "#aed6f1", "#a9dfbf">>

GrayTextColors ==
    <<"#1a1a1a", "#2c2c2c", "#3f3f3f", "#525252",
      "#666666", "#7a7a7a", "#8d8d8d", "#a0a0a0">>

GrayNoiseColors == <<"#bdc3c7", "#d5d5d5", "#e8e8e8", "#f2f2f2">>

\* a color manager whose grayscale noise colors are its text colors
NewColorManager_sharedGray(cfg) ==
    [enableColor |-> cfg.Color,
     background  |-> cfg.Background,
     textColors  |-> IF cfg.Color THEN ColorTextColors ELSE GrayTextColors,
     noiseColors |-> IF cfg.Color THEN ColorNoiseColors ELSE GrayTextColors]

NewColorManager(cfg) ==
    [enableColor |-> cfg.Color,
     background  |-> cfg.Background,
     textColors  |-> IF cfg.Color THEN ColorTextColors ELSE GrayTextColors,
     noiseColors |-> IF cfg.Color THEN ColorNoiseColors ELSE GrayNoiseColors]

\* a text color that is empty when the draw fails
GetRandomTextColor_emptyOnFailure(cm, p) ==
    IF Len(cm.textColors) = 0 THEN [val |-> "#000000", pos |-> p]
    ELSE LET ri == secureRandomInt(Len(cm.textColors), p)
         IN IF ri.err THEN [val |-> "", pos |-> ri.pos]
            ELSE [val |-> cm.textColors[ri.val + 1], pos |-> ri.pos]

GetRandomTextColor(cm, p) ==
    IF Len(cm.textColors) = 0 THEN [val |-> "#000000", pos |-> p]
    ELSE LET ri == secureRandomInt(Len(cm.textColors), p)
         IN IF ri.err THEN [val |-> cm.textColors[1], pos |-> ri.pos]
            ELSE [val |-> cm.textColors[ri.val + 1], pos |-> ri.pos]

GetRandomNoiseColor(cm, p) ==
    IF Len(cm.noiseColors) = 0 THEN [val |-> "#cccccc", pos |-> p]
    ELSE LET ri == secureRandomInt(Len(cm.noiseColors), p)
         IN IF ri.err THEN [val |-> cm.noiseColors[1], pos |-> ri.pos]
            ELSE [val |-> cm.noiseColors[ri.val + 1], pos |-> ri.pos]

GetBackgroundColor(cm) == cm.background

(***************************************************************************)
(* SVGRenderer.                                                            *)
(***************************************************************************)
NewSVGRenderer(cfg) ==
    [width |-> cfg.Width, height |-> cfg.Height, fontSize |-> cfg.FontSize,
     colorMgr |-> NewColorManager(cfg)]

\* fmt.Sprintf("0 0 %d %d", w, h)
ViewBoxOf(w, h) == <<"0", " ", "0", " ">> \o Itoa(w) \o <<" ">> \o Itoa(h)

\* a container whose viewBox names the height before the width
createSVGContainer_viewBoxSwapped(r, cfg) ==
    [Width      |-> r.width,
     Height     |-> r.height,
     ViewBox    |-> ViewBoxOf(r.height, r.width),
     Xmlns      |-> "http://www.w3.org/2000/svg",
     Background |-> <<[X |-> 0, Y |-> 0, Width |-> r.width,
                       Height |-> r.height, Fill |-> cfg.Background]>>,
     Texts      |-> <<>>,
     Paths      |-> <<>>,
     Lines      |-> <<>>,
     Circles    |-> <<>>]

\* a container whose rectangle is filled with the renderer's own background
createSVGContainer_rendererBackground(r, cfg) ==
    [Width      |-> r.width,
     Height     |-> r.height,
     ViewBox    |-> ViewBoxOf(r.width, r.height),
     Xmlns      |-> "http://www.w3.org/2000/svg",
     Background |-> <<[X |-> 0, Y |-> 0, Width |-> r.width,
                       Height |-> r.height,
                       Fill |-> GetBackgroundColor(r.colorMgr)]>>,
     Texts      |-> <<>>,
     Paths      |-> <<>>,
     Lines      |-> <<>>,
     Circles    |-> <<>>]

createSVGContainer(r, cfg) ==
    [Width      |-> r.width,
     Height     |-> r.height,
     ViewBox    |-> ViewBoxOf(r.width, r.height),
     Xmlns      |-> "http://www.w3.org/2000/svg",
     Background |-> <<[X |-> 0, Y |-> 0, Width |-> r.width,
                       Height |-> r.height, Fill |-> cfg.Background]>>,
     Texts      |-> <<>>,
     Paths      |-> <<>>,
     Lines      |-> <<>>,
     Circles    |-> <<>>]

\* fmt's %.Nf verbs: x rounded to the nearest multiple of q
RoundTo(x, q) ==
    IF x >= 0 THEN ((2 * x + q) \div (2 * q)) * q
    ELSE -(((2 * (-x) + q) \div (2 * q)) * q)

\* charWidth := float64(sr.fontSize) * 0.6
CharWidth(r) == (r.fontSize * FScale * 6) \div 10

\* startX := (float64(sr.width) - float64(textLen)*charWidth) / 2
StartX(r, text) == (r.width * FScale - Len(text) * CharWidth(r)) \div 2

\* baseY := float64(sr.height)/2 + float64(sr.fontSize)/3
BaseY(r) == (r.height * FScale) \div 2 + (r.fontSize * FScale) \div 3

\* yOffset, err := secureRandomFloat(-5, 5); if err != nil { yOffset = 0 }
LineOffsetDraw(p) ==
    LET d == secureRandomFloat(-5 * FScale, 5 * FScale, p)
    IN [val |-> IF d.err THEN 0 ELSE d.val, pos |-> d.pos]

\* a jitter of up to 5 units
JitterDraw_wide(p) == secureRandomFloat(-5 * FScale, 5 * FScale, p)

\* xJitter, _ := secureRandomFloat(-3, 3), and the same for yJitter
JitterDraw(p) == secureRandomFloat(-3 * FScale, 3 * FScale, p)

\* rotation, _ := secureRandomFloat(-15, 15)
RotationDraw(p) == secureRandomFloat(-15 * FScale, 15 * FScale, p)

\* fmt.Sprintf("rotate(%.1f %.2f %.2f)", rotation, charX, charY)
TransformOf(rotation, charX, charY) ==
    [fn    |-> "rotate",
     angle |-> RoundTo(rotation, FScale \div 10),
     cx    |-> RoundTo(charX, FScale \div 100),
     cy    |-> RoundTo(charY, FScale \div 100)]

\* a glyph placed after the glyphs before it, spaces taking no width
TextElementAt_packed(r, text, i, yOff, p) ==
    LET xJitter  == JitterDraw(p)
        yJitter  == JitterDraw(xJitter.pos)
        charX    == StartX(r, text)
                        + Len(SelectSeq(SubSeq(text, 1, i),
                                        LAMBDA ch : ch # " "))
                            * CharWidth(r) + xJitter.val
        charY    == BaseY(r) + yOff + yJitter.val
        rotation == RotationDraw(yJitter.pos)
        fill     == GetRandomTextColor(r.colorMgr, rotation.pos)
    IN [el  |-> [X          |-> charX,
                 Y          |-> charY,
                 Fill       |-> fill.val,
                 FontSize   |-> r.fontSize,
                 FontFamily |-> "Arial, sans-serif",
                 Transform  |-> TransformOf(rotation.val, charX, charY),
                 Content    |-> text[i + 1]],
        pos |-> fill.pos]

\* the body of the loop of addTextToSVG for the character at byte index i
\* (0-based) that is not a space: the glyph and the tape position after it
TextElementAt(r, text, i, yOff, p) ==
    LET xJitter  == JitterDraw(p)
        yJitter  == JitterDraw(xJitter.pos)
        charX    == StartX(r, text) + i * CharWidth(r) + xJitter.val
        charY    == BaseY(r) + yOff + yJitter.val
        rotation == RotationDraw(yJitter.pos)
        fill     == GetRandomTextColor(r.colorMgr, rotation.pos)
    IN [el  |-> [X          |-> charX,
                 Y          |-> charY,
                 Fill       |-> fill.val,
                 FontSize   |-> r.fontSize,
                 FontFamily |-> "Arial, sans-serif",
                 Transform  |-> TransformOf(rotation.val, charX, charY),
                 Content    |-> text[i + 1]],
        pos |-> fill.pos]

\* for i, char := range text, from index i on; texts is svg.Texts so far
RECURSIVE TextLoop(_, _, _, _, _, _)
\* svg.Texts = append(svg.Texts, textElement), and on to the next character
TextLoopNext(r, text, i, yOff, texts, g) ==
    TextLoop(r, text, i + 1, yOff, Append(texts, g.el), g.pos)

TextLoop(r, text, i, yOff, texts, p) ==
    IF i >= Len(text) THEN [texts |-> texts, pos |-> p]
    ELSE IF text[i + 1] = " " THEN TextLoop(r, text, i + 1, yOff, texts, p)
    ELSE TextLoopNext(r, text, i, yOff, texts,
                      TextElementAt(r, text, i, yOff, p))

\* a layout that reports the failed draw of the line offset as its error
addTextToSVG_propagates(r, doc, text, cfg, p) ==
    LET yo   == LineOffsetDraw(p)
        loop == TextLoop(r, text, 0, yo.val, doc.Texts, yo.pos)
    IN [svg     |-> [doc EXCEPT !.Texts = loop.texts],
        yOffset |-> yo.val,
        err     |-> secureRandomFloat(-5 * FScale, 5 * FScale, p).err,
        pos     |-> loop.pos]

\* addTextToSVG(svg, text, config): the document, the local yOffset and the
\* tape position after the call; the error result is always nil (err FALSE)
addTextToSVG(r, doc, text, cfg, p) ==
    LET yo   == LineOffsetDraw(p)
        loop == TextLoop(r, text, 0, yo.val, doc.Texts, yo.pos)
    IN [svg     |-> [doc EXCEPT !.Texts = loop.texts],
        yOffset |-> yo.val,
        err     |-> FALSE,
        pos     |-> loop.pos]

(***************************************************************************)
(* NoiseGenerator.  The repository holds two implementations of           *)
(* GenerateLines: one returns straight <line> elements, the other curved   *)
(* <path> elements.                                                        *)
(***************************************************************************)
\* lineWidth, err := secureRandomFloat(0.5, 2.0); if err != nil { 1.0 }
LineWidthDraw(p) ==
    LET d == secureRandomFloat(FScale \div 2, 2 * FScale, p)
    IN [val |-> IF d.err THEN FScale ELSE d.val, pos |-> d.pos]

\* a radius whose fallback is 0.5
RadiusDraw_smallFallback(p) ==
    LET d == secureRandomFloat(FScale, 4 * FScale, p)
    IN [val |-> IF d.err THEN FScale \div 2 ELSE d.val, pos |-> d.pos]

\* radius, err := secureRandomFloat(1.0, 4.0); if err != nil { 2.0 }
RadiusDraw(p) ==
    LET d == secureRandomFloat(FScale, 4 * FScale, p)
    IN [val |-> IF d.err THEN 2 * FScale ELSE d.val, pos |-> d.pos]

\* an iteration that emits the line with the coordinates it has
LineIteration_keepsPartial(width, height, cm, p) ==
    LET x1 == secureRandomFloat(0, width * FScale, p)
        y1 == secureRandomFloat(0, height * FScale, x1.pos)
        x2 == secureRandomFloat(0, width * FScale, y1.pos)
        y2 == secureRandomFloat(0, height * FScale, x2.pos)
        lineWidth == secureRandomFloat(FScale \div 2, 2 * FScale, y2.pos)
    IN [els |-> <<[tag |-> "line",
                   X1 |-> x1.val, Y1 |-> y1.val,
                   X2 |-> x2.val, Y2 |-> y2.val,
                   Stroke |-> GetRandomNoiseColor(cm, lineWidth.pos).val,
                   Width |-> IF lineWidth.err THEN FScale
                             ELSE lineWidth.val]>>,
        pos |-> GetRandomNoiseColor(cm, lineWidth.pos).pos]

\* one iteration of the loop of GenerateLines: the elements appended (none
\* when a coordinate draw fails) and the tape position after it
LineIteration(width, height, cm, p) ==
    LET x1 == secureRandomFloat(0, width * FScale, p)
        y1 == secureRandomFloat(0, height * FScale, x1.pos)
        x2 == secureRandomFloat(0, width * FScale, y1.pos)
        y2 == secureRandomFloat(0, height * FScale, x2.pos)
    IN IF x1.err \/ y1.err \/ x2.err \/ y2.err
       THEN [els |-> <<>>, pos |-> y2.pos]
       ELSE LET lineWidth == LineWidthDraw(y2.pos)
                stroke    == GetRandomNoiseColor(cm, lineWidth.pos)
            IN [els |-> <<[tag |-> "line",
                           X1 |-> x1.val, Y1 |-> y1.val,
                           X2 |-> x2.val, Y2 |-> y2.val,
                           Stroke |-> stroke.val,
                           Width |-> lineWidth.val]>>,
                pos |-> stroke.pos]

\* a loop that runs for i = 0..count, one iteration too many
RECURSIVE LinesLoop_inclusive(_, _, _, _, _, _, _)
LinesLoop_inclusiveNext(i, count, width, height, cm, lines, it) ==
    LinesLoop_inclusive(i + 1, count, width, height, cm, lines \o it.els,
                        it.pos)

LinesLoop_inclusive(i, count, width, height, cm, lines, p) ==
    IF i > count THEN [val |-> lines, pos |-> p]
    ELSE LinesLoop_inclusiveNext(i, count, width, height, cm, lines,
                                 LineIteration(width, height, cm, p))

\* for i := 0; i < count; i++: the loop from index i on, lines being the
\* slice so far; LinesLoopNext is the end of one iteration, it its result
RECURSIVE LinesLoop(_, _, _, _, _, _, _)
LinesLoopNext(i, count, width, height, cm, lines, it) ==
    LinesLoop(i + 1, count, width, height, cm, lines \o it.els, it.pos)

LinesLoop(i, count, width, height, cm, lines, p) ==
    IF i >= count THEN [val |-> lines, pos |-> p]
    ELSE LinesLoopNext(i, count, width, height, cm, lines,
                       LineIteration(width, height, cm, p))

GenerateLines(count, width, height, cm, p) ==
    LinesLoop(0, count, width, height, cm, <<>>, p)

\* fmt's %.2f verb on a fixed-point number
Fmt2(x) == RoundTo(x, FScale \div 100)

\* fmt.Sprintf("%.5g", strokeWidth) for a width in [0.5, 2): five significant
\* digits are five decimals below 1, which every value 0.5 + k*0.00015 has
\* exactly, and four decimals from 1 on
Fmt5g(x) == IF x < FScale THEN x ELSE RoundTo(x, FScale \div 10000)

\* case 0 of generateCurvePath: quadratic Bezier with one control point
QuadraticPath(startX, startY, endX, endY, width, height, p) ==
    LET offsetX  == secureRandomFloat(-((width * 3) \div 10),
                                      (width * 3) \div 10, p)
        offsetY  == secureRandomFloat(-((height * 3) \div 10),
                                      (height * 3) \div 10, offsetX.pos)
        controlX == (startX + endX) \div 2 + offsetX.val
        controlY == (startY + endY) \div 2 + offsetY.val
    IN [val |-> <<[cmd |-> "M", args |-> <<Fmt2(startX), Fmt2(startY)>>],
                  [cmd |-> "Q", args |-> <<Fmt2(controlX), Fmt2(controlY),
                                           Fmt2(endX), Fmt2(endY)>>]>>,
        pos |-> offsetY.pos]

\* case 1 of generateCurvePath: cubic Bezier with two control points
CubicPath(startX, startY, endX, endY, width, height, p) ==
    LET offset1X == secureRandomFloat(-((width * 2) \div 10),
                                      (width * 2) \div 10, p)
        offset1Y == secureRandomFloat(-((height * 2) \div 10),
                                      (height * 2) \div 10, offset1X.pos)
        offset2X == secureRandomFloat(-((width * 2) \div 10),
                                      (width * 2) \div 10, offset1Y.pos)
        offset2Y == secureRandomFloat(-((height * 2) \div 10),
                                      (height * 2) \div 10, offset2X.pos)
        control1X == startX + ((endX - startX) * 33) \div 100 + offset1X.val
        control1Y == startY + ((endY - startY) * 33) \div 100 + offset1Y.val
        control2X == startX + ((endX - startX) * 67) \div 100 + offset2X.val
        control2Y == startY + ((endY - startY) * 67) \div 100 + offset2Y.val
    IN [val |-> <<[cmd |-> "M", args |-> <<Fmt2(startX), Fmt2(startY)>>],
                  [cmd |-> "C", args |-> <<Fmt2(control1X), Fmt2(control1Y),
                                           Fmt2(control2X), Fmt2(control2Y),
                                           Fmt2(endX), Fmt2(endY)>>]>>,
        pos |-> offset2Y.pos]

\* offset := amplitude * (0.5 - 0.5*float64(i%2))
WaveOffset(amplitude, i) == IF i % 2 = 1 THEN 0 ELSE amplitude \div 2

\* an offset that is applied along the y axis when the segment has no
\* direction
PerpOffset_alongY(dx, dy, offset) ==
    IF dx = 0 /\ dy = 0 THEN <<0, offset>>
    ELSE LET tenth == FScale \div 10
             dxT   == RoundTo(dx, tenth) \div tenth
             dyT   == RoundTo(dy, tenth) \div tenth
             offT  == RoundTo(offset, tenth) \div tenth
             sq    == dxT * dxT + dyT * dyT
             len2  == IF sq = 0 THEN 1 ELSE sq
             hund  == FScale \div 100
         IN <<(-((dyT * offT * 100) \div len2)) * hund,
              ((dxT * offT * 100) \div len2) * hund>>

\* the perpendicular offset of the wave: <<perpX, perpY>> with
\* perpX = -dy * (1/length) * offset and perpY = dx * (1/length) * offset,
\* where length = dx*dx + dy*dy, and no offset when length is 0.  The
\* quotient is computed on tenths of a unit and kept to hundredths, the
\* precision the path data is written with.
PerpOffset(dx, dy, offset) ==
    IF dx = 0 /\ dy = 0 THEN <<0, 0>>
    ELSE LET tenth == FScale \div 10
             dxT   == RoundTo(dx, tenth) \div tenth
             dyT   == RoundTo(dy, tenth) \div tenth
             offT  == RoundTo(offset, tenth) \div tenth
             sq    == dxT * dxT + dyT * dyT
             len2  == IF sq = 0 THEN 1 ELSE sq
             hund  == FScale \div 100
         IN <<(-((dyT * offT * 100) \div len2)) * hund,
              ((dxT * offT * 100) \div len2) * hund>>

\* the loop of the default case of generateCurvePath, from segment i on
RECURSIVE WaveLoop(_, _, _, _, _, _, _, _)
WaveLoop(i, numSegments, startX, startY, endX, endY, path, p) ==
    IF i > numSegments THEN [val |-> path, pos |-> p]
    ELSE LET dx        == endX - startX
             dy        == endY - startY
             amplitude == secureRandomFloat(10 * FScale, 30 * FScale, p)
             perp      == PerpOffset(dx, dy, WaveOffset(amplitude.val, i))
             segmentX  == startX + (dx * i) \div numSegments + perp[1]
             segmentY  == startY + (dy * i) \div numSegments + perp[2]
             piece     ==
                 IF i = 1
                 THEN [cmd |-> "Q",
                       args |-> <<Fmt2(segmentX), Fmt2(segmentY),
                                  Fmt2(startX + dx \div 2),
                                  Fmt2(startY + dy \div 2)>>]
                 ELSE [cmd |-> "T",
                       args |-> <<Fmt2(segmentX), Fmt2(segmentY)>>]
         IN WaveLoop(i + 1, numSegments, startX, startY, endX, endY,
                     Append(path, piece), amplitude.pos)

\* default case of generateCurvePath: three quadratic segments
WavePath(startX, startY, endX, endY, p) ==
    WaveLoop(1, 3, startX, startY, endX, endY,
             <<[cmd |-> "M", args |-> <<Fmt2(startX), Fmt2(startY)>>]>>, p)

\* generateCurvePath: curveType, _ := secureRandomInt(3)
generateCurvePath(startX, startY, endX, endY, width, height, p) ==
    LET curveType == secureRandomInt(3, p)
    IN CASE curveType.val = 0 ->
              QuadraticPath(startX, startY, endX, endY, width, height,
                            curveType.pos)
         [] curveType.val = 1 ->
              CubicPath(startX, startY, endX, endY, width, height,
                        curveType.pos)
         [] OTHER ->
              WavePath(startX, startY, endX, endY, curveType.pos)

\* curve := &PathElement{D, Fill: "none", Stroke, StrokeWidth}
NewPathElement(pathData, stroke, strokeWidth) ==
    [els |-> <<[tag |-> "path",
                D |-> pathData.val,
                Fill |-> "none",
                Stroke |-> stroke.val,
                StrokeWidth |-> Fmt5g(strokeWidth.val)]>>,
     pos |-> stroke.pos]

\* Stroke: colorMgr.GetRandomNoiseColor(), drawn after the path data
CurveWithPath(cm, strokeWidth, pathData) ==
    NewPathElement(pathData, GetRandomNoiseColor(cm, pathData.pos),
                   strokeWidth)

\* pathData := ng.generateCurvePath(...), drawn after the stroke width
CurveWithWidth(startX, startY, endX, endY, width, height, cm, strokeWidth) ==
    CurveWithPath(cm, strokeWidth,
                  generateCurvePath(startX, startY, endX, endY,
                                    width * FScale, height * FScale,
                                    strokeWidth.pos))

\* one iteration of the loop of the GenerateLines that returns PathElements
CurveIteration(width, height, cm, p) ==
    LET startX == secureRandomFloat(0, width * FScale, p)
        startY == secureRandomFloat(0, height * FScale, startX.pos)
        endX   == secureRandomFloat(0, width * FScale, startY.pos)
        endY   == secureRandomFloat(0, height * FScale, endX.pos)
    IN IF startX.err \/ startY.err \/ endX.err \/ endY.err
       THEN [els |-> <<>>, pos |-> endY.pos]
       ELSE CurveWithWidth(startX.val, startY.val, endX.val, endY.val,
                           width, height, cm, LineWidthDraw(endY.pos))

RECURSIVE CurvesLoop(_, _, _, _, _, _, _)
CurvesLoopNext(i, count, width, height, cm, curves, it) ==
    CurvesLoop(i + 1, count, width, height, cm, curves \o it.els, it.pos)

CurvesLoop(i, count, width, height, cm, curves, p) ==
    IF i >= count THEN [val |-> curves, pos |-> p]
    ELSE CurvesLoopNext(i, count, width, height, cm, curves,
                        CurveIteration(width, height, cm, p))

\* GenerateLines of the implementation that returns curved PathElements
GenerateLinesPath(count, width, height, cm, p) ==
    CurvesLoop(0, count, width, height, cm, <<>>, p)

\* a dot loop that also leaves out a dot whose center draw gave 0
DotIteration_skipsZero(width, height, cm, p) ==
    LET cx == secureRandomFloat(0, width * FScale, p)
        cy == secureRandomFloat(0, height * FScale, cx.pos)
    IN IF cx.err \/ cy.err \/ cx.val = 0
       THEN [els |-> <<>>, pos |-> cy.pos]
       ELSE LET radius == RadiusDraw(cy.pos)
                fill   == GetRandomNoiseColor(cm, radius.pos)
            IN [els |-> <<[tag |-> "circle",
                           CX |-> cx.val, CY |-> cy.val,
                           R |-> radius.val, Fill |-> fill.val]>>,
                pos |-> fill.pos]

\* one iteration of the loop of GenerateDots
DotIteration(width, height, cm, p) ==
    LET cx == secureRandomFloat(0, width * FScale, p)
        cy == secureRandomFloat(0, height * FScale, cx.pos)
    IN IF cx.err \/ cy.err
       THEN [els |-> <<>>, pos |-> cy.pos]
       ELSE LET radius == RadiusDraw(cy.pos)
                fill   == GetRandomNoiseColor(cm, radius.pos)
            IN [els |-> <<[tag |-> "circle",
                           CX |-> cx.val, CY |-> cy.val,
                           R |-> radius.val, Fill |-> fill.val]>>,
                pos |-> fill.pos]

RECURSIVE DotsLoop(_, _, _, _, _, _, _)
DotsLoopNext(i, count, width, height, cm, circles, it) ==
    DotsLoop(i + 1, count, width, height, cm, circles \o it.els, it.pos)

DotsLoop(i, count, width, height, cm, circles, p) ==
    IF i >= count THEN [val |-> circles, pos |-> p]
    ELSE DotsLoopNext(i, count, width, height, cm, circles,
                      DotIteration(width, height, cm, p))

GenerateDots(count, width, height, cm, p) ==
    DotsLoop(0, count, width, height, cm, <<>>, p)

\* noiseGen.GenerateLines(config.Noise*2, ...)
NoiseLineCount(cfg) == cfg.Noise * 2

\* four dots per noise level
NoiseDotCount_four(cfg) == cfg.Noise * 4

\* noiseGen.GenerateDots(config.Noise*3, ...)
NoiseDotCount(cfg) == cfg.Noise * 3

\* svg.Lines = append(svg.Lines, lines...)
appendLines(doc, lines) ==
    [svg |-> [doc EXCEPT !.Lines = doc.Lines \o lines.val], pos |-> lines.pos]

\* svg.Circles = append(svg.Circles, circles...)
appendCircles(doc, circles) ==
    [svg |-> [doc EXCEPT !.Circles = doc.Circles \o circles.val],
     pos |-> circles.pos]

\* the second half of addNoiseToSVG: the dots, drawn after the lines
addDots(r, cfg, st) ==
    appendCircles(st.svg,
                  GenerateDots(NoiseDotCount(cfg), r.width, r.height,
                               r.colorMgr, st.pos))

\* noise without the early return, for a level of at least 1
addNoiseToSVG_atLeastOne(r, doc, cfg, impl, p) ==
    addDots(r, WithNoise(cfg, IF cfg.Noise < 1 THEN 1 ELSE cfg.Noise),
            appendLines(doc,
                IF impl = "line"
                THEN GenerateLines((IF cfg.Noise < 1 THEN 1 ELSE cfg.Noise) * 2,
                                   r.width, r.height, r.colorMgr, p)
                ELSE GenerateLinesPath(
                         (IF cfg.Noise < 1 THEN 1 ELSE cfg.Noise) * 2,
                         r.width, r.height, r.colorMgr, p)))

\* addNoiseToSVG(svg, config): the document and the tape position after it
addNoiseToSVG(r, doc, cfg, impl, p) ==
    IF cfg.Noise <= 0 THEN [svg |-> doc, pos |-> p]
    ELSE addDots(r, cfg,
                 appendLines(doc,
                     IF impl = "line"
                     THEN GenerateLines(NoiseLineCount(cfg), r.width,
                                        r.height, r.colorMgr, p)
                     ELSE GenerateLinesPath(NoiseLineCount(cfg), r.width,
                                            r.height, r.colorMgr, p)))

(***************************************************************************)
(* Serialization: xml.Header followed by the tokens of the element tree.   *)
(* encoding/xml writes the fields of SVGElement in declaration order:      *)
(* attributes, then Background, Texts, Paths, Lines, Circles.              *)
(***************************************************************************)
XMLHeader == "<?xml version=\"1.0\" encoding=\"UTF-8\"?>\n"

\* the tokens of the elements of one field, each under its XMLName
TokensOf(tagName, els) ==
    [i \in 1..Len(els) |-> [tag |-> tagName, el |-> els[i]]]

\* the rect element: its int attributes are written in decimal
RectTokens(rects) ==
    [i \in 1..Len(rects) |->
        [tag |-> "rect",
         el  |-> [x      |-> Itoa(rects[i].X),
                  y      |-> Itoa(rects[i].Y),
                  width  |-> Itoa(rects[i].Width),
                  height |-> Itoa(rects[i].Height),
                  fill   |-> rects[i].Fill]]]

\* the noise elements returned by GenerateLines carry their own XMLName
LineTokens(els) == [i \in 1..Len(els) |-> [tag |-> els[i].tag, el |-> els[i]]]

\* a serializer that writes the circles before the texts
Marshal_circlesFirst(doc) ==
    <<XMLHeader,
      [tag     |-> "svg",
       width   |-> Itoa(doc.Width),
       height  |-> Itoa(doc.Height),
       viewBox |-> doc.ViewBox,
       xmlns   |-> doc.Xmlns]>>
    \o RectTokens(doc.Background)
    \o TokensOf("circle", doc.Circles)
    \o TokensOf("text", doc.Texts)
    \o TokensOf("path", doc.Paths)
    \o LineTokens(doc.Lines)
    \o <<[tag |-> "/svg"]>>

\* xml.Header + string(xml.MarshalIndent(svg, "", "  "))
Marshal(doc) ==
    <<XMLHeader,
      [tag     |-> "svg",
       width   |-> Itoa(doc.Width),
       height  |-> Itoa(doc.Height),
       viewBox |-> doc.ViewBox,
       xmlns   |-> doc.Xmlns]>>
    \o RectTokens(doc.Background)
    \o TokensOf("text", doc.Texts)
    \o TokensOf("path", doc.Paths)
    \o LineTokens(doc.Lines)
    \o TokensOf("circle", doc.Circles)
    \o <<[tag |-> "/svg"]>>

\* a question text that loses its whole " = ?" suffix
QuestionText_dropSuffix(q) == Replace1(q, <<" ", "=", " ", "?">>, <<>>)

\* questionText := strings.Replace(expr.Question, " = ?", " = ", 1)
QuestionText(q) == Replace1(q, <<" ", "=", " ", "?">>, <<" ", "=", " ">>)

(***************************************************************************)
(* The state machine: a renderer and two calls of RenderMathExpression on  *)
(* it with the same arguments, the second after the first has returned.    *)
(***************************************************************************)
\* the error type constants of errors.go; NoError is the nil error
NoError           == "nil"
ErrInvalidConfig  == "INVALID_CONFIG"
ErrMathGeneration == "MATH_GENERATION_FAILED"
ErrSVGGeneration  == "SVG_GENERATION_FAILED"

(***************************************************************************)
(* Config.Validate.  An error is modelled by its Type.                     *)
(***************************************************************************)
\* a validation that accepts a range of one value
Validate_acceptsEqualBounds(c) ==
    IF c.MathMin < 0 THEN ErrInvalidConfig
    ELSE IF c.MathMax < c.MathMin THEN ErrInvalidConfig
    ELSE IF c.Width <= 0 \/ c.Height <= 0 THEN ErrInvalidConfig
    ELSE IF c.FontSize <= 0 THEN ErrInvalidConfig
    ELSE IF c.Noise < 0 \/ c.Noise > NoiseLimit THEN ErrInvalidConfig
    ELSE NoError

Validate(c) ==
    IF c.MathMin < 0 THEN ErrInvalidConfig
    ELSE IF c.MathMax <= c.MathMin THEN ErrInvalidConfig
    ELSE IF c.Width <= 0 \/ c.Height <= 0 THEN ErrInvalidConfig
    ELSE IF c.FontSize <= 0 THEN ErrInvalidConfig
    ELSE IF c.Noise < 0 \/ c.Noise > NoiseLimit THEN ErrInvalidConfig
    ELSE NoError

(***************************************************************************)
(* MathExpressionGenerator.                                                *)
(***************************************************************************)
\* strings.Contains(s, ch) for a one-character ch
Contains(s, ch) == \E i \in 1..Len(s) : s[i] = ch

parseOperators(operatorStr) ==
    LET plus == IF Contains(operatorStr, "+") THEN <<"+">> ELSE <<>>
        both == IF Contains(operatorStr, "-") THEN Append(plus, "-") ELSE plus
    IN IF Len(both) = 0 THEN <<"+">> ELSE both

NewMathExpressionGenerator(cfg) ==
    [minValue  |-> cfg.MathMin,
     maxValue  |-> cfg.MathMax,
     operators |-> parseOperators(cfg.MathOperator)]

\* the nil *MathExpression
NoExpr == [Operand1 |-> 0, Operand2 |-> 0, Operator |-> "", Answer |-> 0,
           Question |-> <<>>]

\* an operand of [minValue + 1, maxValue + 1]
generateOperand_shifted(meg, p) ==
    LET r == secureRandomInt(meg.maxValue - meg.minValue + 1, p)
    IN IF r.err THEN [val |-> 0, err |-> ErrMathGeneration, pos |-> r.pos]
       ELSE [val |-> meg.minValue + r.val + 1, err |-> NoError, pos |-> r.pos]

generateOperand(meg, p) ==
    LET r == secureRandomInt(meg.maxValue - meg.minValue + 1, p)
    IN IF r.err THEN [val |-> 0, err |-> ErrMathGeneration, pos |-> r.pos]
       ELSE [val |-> meg.minValue + r.val, err |-> NoError, pos |-> r.pos]

GenerateAddition(meg, p) ==
    LET o1 == generateOperand(meg, p)
        o2 == generateOperand(meg, o1.pos)
    IN IF o1.err # NoError
       THEN [expr |-> NoExpr, err |-> o1.err, pos |-> o1.pos]
       ELSE IF o2.err # NoError
       THEN [expr |-> NoExpr, err |-> o2.err, pos |-> o2.pos]
       ELSE [expr |-> [Operand1 |-> o1.val,
                       Operand2 |-> o2.val,
                       Operator |-> "+",
                       Answer   |-> o1.val + o2.val,
                       Question |-> Question(o1.val, "+", o2.val)],
             err  |-> NoError,
             pos  |-> o2.pos]

\* a subtraction that keeps the operands in the order they were drawn
GenerateSubtraction_noSwap(meg, p) ==
    LET o1 == generateOperand(meg, p)
        o2 == generateOperand(meg, o1.pos)
    IN IF o1.err # NoError
       THEN [expr |-> NoExpr, err |-> o1.err, pos |-> o1.pos]
       ELSE IF o2.err # NoError
       THEN [expr |-> NoExpr, err |-> o2.err, pos |-> o2.pos]
       ELSE [expr |-> [Operand1 |-> o1.val,
                       Operand2 |-> o2.val,
                       Operator |-> "-",
                       Answer   |-> o1.val - o2.val,
                       Question |-> Question(o1.val, "-", o2.val)],
             err  |-> NoError,
             pos  |-> o2.pos]

GenerateSubtraction(meg, p) ==
    LET o1 == generateOperand(meg, p)
        o2 == generateOperand(meg, o1.pos)
        operand1 == IF o1.val < o2.val THEN o2.val ELSE o1.val
        operand2 == IF o1.val < o2.val THEN o1.val ELSE o2.val
    IN IF o1.err # NoError
       THEN [expr |-> NoExpr, err |-> o1.err, pos |-> o1.pos]
       ELSE IF o2.err # NoError
       THEN [expr |-> NoExpr, err |-> o2.err, pos |-> o2.pos]
       ELSE [expr |-> [Operand1 |-> operand1,
                       Operand2 |-> operand2,
                       Operator |-> "-",
                       Answer   |-> operand1 - operand2,
                       Question |-> Question(operand1, "-", operand2)],
             err  |-> NoError,
             pos  |-> o2.pos]

GenerateExpression(meg, p) ==
    LET operatorIndex == secureRandomInt(Len(meg.operators), p)
    IN IF operatorIndex.err
       THEN [expr |-> NoExpr, err |-> ErrMathGeneration,
             pos |-> operatorIndex.pos]
       ELSE CASE meg.operators[operatorIndex.val + 1] = "+" ->
                   GenerateAddition(meg, operatorIndex.pos)
              [] meg.operators[operatorIndex.val + 1] = "-" ->
                   GenerateSubtraction(meg, operatorIndex.pos)
              [] OTHER -> GenerateAddition(meg, operatorIndex.pos)

\* the variables of the generator and of the function calls, when unused
NoGenerator == [config |-> <<>>]
NoProbe     == [fn |-> "none"]

NoSVG == [Width |-> 0, Height |-> 0, ViewBox |-> <<>>, Xmlns |-> "",
          Background |-> <<>>, Texts |-> <<>>, Paths |-> <<>>,
          Lines |-> <<>>, Circles |-> <<>>]

Init ==
    /\ tape \in Tapes
    /\ rpos = 0
    /\ \E b \in Builds : sr = NewSVGRenderer(b[1]) /\ noiseImpl = b[2]
    /\ \E w \in Workloads : config = w[1] /\ question = w[2]
    /\ pc = [c \in Calls |-> "idle"]
    /\ yOffset = [c \in Calls |-> 0]
    /\ svg = [c \in Calls |-> NoSVG]
    /\ data = [c \in Calls |-> <<>>]
    /\ err = [c \in Calls |-> NoError]
    /\ cg = NoGenerator
    /\ gor = <<>>
    /\ probe = NoProbe

\* RenderMathExpression is entered: svg := sr.createSVGContainer(config)
CreateContainer(c) ==
    /\ pc[c] = "idle"
    /\ \A d \in Calls : d < c => pc[d] = "done"
    /\ svg' = [svg EXCEPT ![c] = createSVGContainer(sr, config)]
    /\ pc' = [pc EXCEPT ![c] = "text"]
    /\ UNCHANGED <<tape, rpos, sr, config, question, yOffset, data, noiseImpl,
                   err, genVars>>

\* err := sr.addTextToSVG(svg, questionText, config); if err != nil the
\* call returns "" and an ErrSVGGeneration error
AddText(c) ==
    /\ pc[c] = "text"
    /\ LET r == addTextToSVG(sr, svg[c], QuestionText(question), config, rpos)
       IN /\ svg' = [svg EXCEPT ![c] = r.svg]
          /\ yOffset' = [yOffset EXCEPT ![c] = r.yOffset]
          /\ rpos' = r.pos % TapeLen
          /\ err' = [err EXCEPT ![c] = IF r.err THEN ErrSVGGeneration
                                                ELSE NoError]
          /\ pc' = [pc EXCEPT ![c] = IF r.err THEN "done" ELSE "noise"]
    /\ UNCHANGED <<tape, sr, config, question, data, noiseImpl, genVars>>

\* a noise pass that uses up the noise colors of the renderer's color manager
AddNoise_consumesColors(c) ==
    /\ pc[c] = "noise"
    /\ LET r == addNoiseToSVG(sr, svg[c], config, noiseImpl, rpos)
       IN /\ svg' = [svg EXCEPT ![c] = r.svg]
          /\ rpos' = r.pos % TapeLen
    /\ sr' = [sr EXCEPT !.colorMgr.noiseColors = SubSeq(@, 2, Len(@))]
    /\ pc' = [pc EXCEPT ![c] = "marshal"]
    /\ UNCHANGED <<tape, config, question, yOffset, data, noiseImpl, err,
                   genVars>>

\* sr.addNoiseToSVG(svg, config)
AddNoise(c) ==
    /\ pc[c] = "noise"
    /\ LET r == addNoiseToSVG(sr, svg[c], config, noiseImpl, rpos)
       IN /\ svg' = [svg EXCEPT ![c] = r.svg]
          /\ rpos' = r.pos % TapeLen
    /\ pc' = [pc EXCEPT ![c] = "marshal"]
    /\ UNCHANGED <<tape, sr, config, question, yOffset, data, noiseImpl, err,
                   genVars>>

\* xml.MarshalIndent and the return of xml.Header + string(xmlData)
MarshalIndent(c) ==
    /\ pc[c] = "marshal"
    /\ data' = [data EXCEPT ![c] = Marshal(svg[c])]
    /\ pc' = [pc EXCEPT ![c] = "done"]
    /\ UNCHANGED <<tape, rpos, sr, config, question, yOffset, svg, noiseImpl,
                   err, genVars>>

Next ==
    \E c \in Calls :
        \/ CreateContainer(c)
        \/ AddText(c)
        \/ AddNoise(c)
        \/ MarshalIndent(c)

Spec == Init /\ [][Next]_vars

(***************************************************************************)
(* RenderMathExpression as one function, as the CaptchaGenerator calls it: *)
(* the returned string, the returned error and the tape position after it. *)
(***************************************************************************)
RenderAfterNoise(n) ==
    [data |-> Marshal(n.svg), err |-> NoError, pos |-> n.pos]

RenderAfterText(r, cfg, impl, t) ==
    IF t.err THEN [data |-> <<>>, err |-> ErrSVGGeneration, pos |-> t.pos]
    ELSE RenderAfterNoise(addNoiseToSVG(r, t.svg, cfg, impl, t.pos))

RenderMathExpression(r, expr, cfg, impl, p) ==
    RenderAfterText(r, cfg, impl,
                    addTextToSVG(r, createSVGContainer(r, cfg),
                                 QuestionText(expr.Question), cfg, p))

(***************************************************************************)
(* CaptchaGenerator.  A *Config is modelled by its value: the pointers     *)
(* the model compares are pointers to configurations of different values.  *)
(***************************************************************************)
\* the nil *Config
NilConfig == [nil |-> TRUE]

\* the nil *CaptchaResult
NoResult == [Data |-> <<>>, Text |-> <<>>, Question |-> <<>>]

NewCaptchaGenerator(cfg) ==
    LET c == IF cfg = NilConfig THEN DefaultConfig
             ELSE IF Validate(cfg) # NoError THEN DefaultConfig
             ELSE cfg
    IN [config      |-> c,
        mathGen     |-> NewMathExpressionGenerator(c),
        svgRenderer |-> NewSVGRenderer(c),
        mutex       |-> "unlocked"]

\* &CaptchaResult{Data: svgData, Text: strconv.Itoa(expr.Answer),
\*                Question: expr.Question}
NewCaptchaResult(svgData, expr) ==
    [Data |-> svgData, Text |-> Itoa(expr.Answer), Question |-> expr.Question]

\* configurations of the calls: the one of TestCaptchaGeneratorCustomConfig
\* as options, the one of CreateWithSize(300, 100) and
\* CreateWithMathRange(10, 20) as the update, and an invalid one
OptsConfig    == WithNoise(CustomConfig, MaxNoise)
UpdatedConfig == [DefaultConfig EXCEPT !.MathMin = 10, !.MathMax = 20,
                                       !.Width = 300, !.Height = 100]
InvalidConfig == [DefaultConfig EXCEPT !.Width = 0]

\* the calls of the creating goroutine
Requests ==
    {[call |-> "CreateMathExpr", arg |-> NilConfig, count |-> 0]}
    \cup {[call |-> "CreateMathExprWithOptions", arg |-> a, count |-> 0] :
              a \in {NilConfig, OptsConfig, InvalidConfig}}
    \cup {[call |-> "GenerateMultiple", arg |-> NilConfig, count |-> n] :
              n \in (-1..MaxCount) \cup {BatchLimit + 1}}

\* the arguments of the UpdateConfig call of the updating goroutine
Updates == {NilConfig, InvalidConfig, UpdatedConfig}

\* the tapes of the generator: one outcome everywhere, or an operand pair
\* that needs the swap of GenerateSubtraction, with at most one failure
GenTapes ==
    {t \in [1..TapeLen -> Outcomes] :
        /\ Cardinality({i \in 1..TapeLen : t[i] = -1}) <= 1
        /\ \/ \E k \in {0, 1, 2} : \A i \in 1..TapeLen : t[i] \in {-1, k}
           \/ \A i \in 1..TapeLen :
                  t[i] \in {-1, IF i % 2 = 0 THEN 0 ELSE 2}}

\* the locals of the creating goroutine before its call
NewCreator(req) ==
    [pc       |-> "start",
     req      |-> req,
     opts     |-> NilConfig,
     meg      |-> NewMathExpressionGenerator(DefaultConfig),
     expr     |-> NoExpr,
     renderer |-> NewSVGRenderer(DefaultConfig),
     i        |-> 0,
     results  |-> <<>>,
     result   |-> NoResult,
     ret      |-> <<>>,
     err      |-> NoError,
     unlocked |-> TRUE]

\* the locals of the updating goroutine before its call
NewUpdater(arg) == [pc |-> "start", arg |-> arg, err |-> NoError]

GenInit ==
    /\ tape \in GenTapes
    /\ rpos = 0
    /\ sr = NewSVGRenderer(DefaultConfig)
    /\ noiseImpl \in {b[2] : b \in Builds}
    /\ config = DefaultConfig
    /\ question = <<>>
    /\ pc = [c \in Calls |-> "idle"]
    /\ yOffset = [c \in Calls |-> 0]
    /\ svg = [c \in Calls |-> NoSVG]
    /\ data = [c \in Calls |-> <<>>]
    /\ err = [c \in Calls |-> NoError]
    /\ cg = NewCaptchaGenerator(DefaultConfig)
    /\ \E req \in Requests, arg \in Updates :
           gor = [creator |-> NewCreator(req), updater |-> NewUpdater(arg)]
    /\ probe = NoProbe

\* a GenerateMultiple that returns the results it has when a call fails
Returned_partial(g, res, e) ==
    IF g.req.call = "GenerateMultiple"
    THEN IF e # NoError
         THEN [g EXCEPT !.pc = "done", !.result = res, !.ret = g.results,
                        !.err = e]
         ELSE [g EXCEPT !.pc = "loop", !.result = res,
                        !.results = Append(@, res), !.i = @ + 1]
    ELSE [g EXCEPT !.pc = "done", !.result = res, !.err = e]

\* a CreateMathExpr call of the creating goroutine returns (res, e): to the
\* caller, or to the loop of GenerateMultiple
Returned(g, res, e) ==
    IF g.req.call = "GenerateMultiple"
    THEN IF e # NoError
         THEN [g EXCEPT !.pc = "done", !.result = res, !.ret = <<>>,
                        !.err = e]
         ELSE [g EXCEPT !.pc = "loop", !.result = res,
                        !.results = Append(@, res), !.i = @ + 1]
    ELSE [g EXCEPT !.pc = "done", !.result = res, !.err = e]

\* GenerateMultiple(count) up to its loop
GenerateMultipleEnter ==
    LET g == gor.creator
    IN /\ g.pc = "start"
       /\ g.req.call = "GenerateMultiple"
       /\ gor' = [gor EXCEPT !.creator =
                     IF g.req.count <= 0
                     THEN [g EXCEPT !.pc = "done", !.err = ErrInvalidConfig]
                     ELSE IF g.req.count > BatchLimit
                     THEN [g EXCEPT !.pc = "done", !.err = ErrInvalidConfig]
                     ELSE [g EXCEPT !.pc = "loop"]]
       /\ UNCHANGED <<tape, rpos, renderVars, cg, probe>>

\* for i := 0; i < count; i++ { result, err := cg.CreateMathExpr() ... }
\* return results, nil
GenerateMultipleLoop ==
    LET g == gor.creator
    IN /\ g.pc = "loop"
       /\ gor' = [gor EXCEPT !.creator =
                     IF g.i < g.req.count
                     THEN [g EXCEPT !.pc = "CreateMathExpr"]
                     ELSE [g EXCEPT !.pc = "done", !.ret = g.results]]
       /\ UNCHANGED <<tape, rpos, renderVars, cg, probe>>

\* CreateMathExpr: the argument cg.config of its call of
\* CreateMathExprWithOptions, read without the mutex
CreateMathExpr ==
    LET g == gor.creator
    IN /\ \/ g.pc = "start" /\ g.req.call = "CreateMathExpr"
          \/ g.pc = "CreateMathExpr"
       /\ gor' = [gor EXCEPT !.creator =
                     [g EXCEPT !.pc = "options", !.opts = cg.config,
                               !.unlocked = cg.mutex = "unlocked"]]
       /\ UNCHANGED <<tape, rpos, renderVars, cg, probe>>

\* CreateMathExprWithOptions(opts) called by the goroutine itself
CreateMathExprWithOptions ==
    LET g == gor.creator
    IN /\ g.pc = "start"
       /\ g.req.call = "CreateMathExprWithOptions"
       /\ gor' = [gor EXCEPT !.creator =
                     [g EXCEPT !.pc = "options", !.opts = g.req.arg]]
       /\ UNCHANGED <<tape, rpos, renderVars, cg, probe>>

\* if opts == nil { opts = cg.config }
TakeOptions ==
    LET g == gor.creator
    IN /\ g.pc = "options"
       /\ gor' = [gor EXCEPT !.creator =
                     IF g.opts = NilConfig
                     THEN [g EXCEPT !.pc = "generate", !.opts = cg.config,
                                    !.unlocked = @ /\ cg.mutex = "unlocked"]
                     ELSE [g EXCEPT !.pc = "generate"]]
       /\ UNCHANGED <<tape, rpos, renderVars, cg, probe>>

\* opts.Validate() and cg.mathGen.GenerateExpression()
GenerateAfter(g, e) ==
    IF e.err # NoError
    THEN Returned(g, NoResult, e.err)
    ELSE [g EXCEPT !.pc = "renderer", !.expr = e.expr, !.meg = cg.mathGen,
                   !.unlocked = @ /\ cg.mutex = "unlocked"]

Generate ==
    LET g == gor.creator
    IN /\ g.pc = "generate"
       /\ IF Validate(g.opts) # NoError
          THEN /\ gor' = [gor EXCEPT !.creator =
                            Returned(g, NoResult, Validate(g.opts))]
               /\ rpos' = rpos
          ELSE /\ gor' = [gor EXCEPT !.creator =
                            GenerateAfter(g, GenerateExpression(cg.mathGen,
                                                                rpos))]
               /\ rpos' = GenerateExpression(cg.mathGen, rpos).pos
       /\ UNCHANGED <<tape, renderVars, cg, probe>>

\* renderer := cg.svgRenderer
ReadRenderer ==
    LET g == gor.creator
    IN /\ g.pc = "renderer"
       /\ gor' = [gor EXCEPT !.creator =
                     [g EXCEPT !.pc = "compare", !.renderer = cg.svgRenderer,
                               !.unlocked = @ /\ cg.mutex = "unlocked"]]
       /\ UNCHANGED <<tape, rpos, renderVars, cg, probe>>

\* if opts != cg.config { renderer = NewSVGRenderer(opts) }
CompareConfig ==
    LET g == gor.creator
    IN /\ g.pc = "compare"
       /\ gor' = [gor EXCEPT !.creator =
                     [g EXCEPT !.pc = "render",
                               !.renderer = IF g.opts # cg.config
                                            THEN NewSVGRenderer(g.opts)
                                            ELSE @,
                               !.unlocked = @ /\ cg.mutex = "unlocked"]]
       /\ UNCHANGED <<tape, rpos, renderVars, cg, probe>>

\* svgData, err := renderer.RenderMathExpression(expr, opts) and the return
RenderAfter(g, r) ==
    IF r.err # NoError
    THEN Returned(g, NoResult, r.err)
    ELSE Returned(g, NewCaptchaResult(r.data, g.expr), NoError)

Render ==
    LET g == gor.creator
    IN /\ g.pc = "render"
       /\ gor' = [gor EXCEPT !.creator =
                     RenderAfter(g, RenderMathExpression(
                                        g.renderer, g.expr, g.opts,
                                        noiseImpl, rpos))]
       /\ rpos' = RenderMathExpression(g.renderer, g.expr, g.opts,
                                       noiseImpl, rpos).pos
       /\ UNCHANGED <<tape, renderVars, cg, probe>>

\* UpdateConfig(config) up to cg.mutex.Lock()
UpdateConfigEnter ==
    LET u == gor.updater
    IN /\ u.pc = "start"
       /\ gor' = [gor EXCEPT !.updater =
                     IF u.arg = NilConfig
                     THEN [u EXCEPT !.pc = "done", !.err = ErrInvalidConfig]
                     ELSE IF Validate(u.arg) # NoError
                     THEN [u EXCEPT !.pc = "done", !.err = Validate(u.arg)]
                     ELSE [u EXCEPT !.pc = "lock"]]
       /\ UNCHANGED <<tape, rpos, renderVars, cg, probe>>

\* cg.mutex.Lock()
Lock ==
    /\ gor.updater.pc = "lock"
    /\ cg.mutex = "unlocked"
    /\ cg' = [cg EXCEPT !.mutex = "locked"]
    /\ gor' = [gor EXCEPT !.updater.pc = "config"]
    /\ UNCHANGED <<tape, rpos, renderVars, probe>>

\* cg.config = config
WriteConfig ==
    /\ gor.updater.pc = "config"
    /\ cg' = [cg EXCEPT !.config = gor.updater.arg]
    /\ gor' = [gor EXCEPT !.updater.pc = "mathGen"]
    /\ UNCHANGED <<tape, rpos, renderVars, probe>>

\* cg.mathGen = NewMathExpressionGenerator(config)
WriteMathGen ==
    /\ gor.updater.pc = "mathGen"
    /\ cg' = [cg EXCEPT !.mathGen =
                           NewMathExpressionGenerator(gor.updater.arg)]
    /\ gor' = [gor EXCEPT !.updater.pc = "svgRenderer"]
    /\ UNCHANGED <<tape, rpos, renderVars, probe>>

\* cg.svgRenderer = NewSVGRenderer(config)
WriteRenderer ==
    /\ gor.updater.pc = "svgRenderer"
    /\ cg' = [cg EXCEPT !.svgRenderer = NewSVGRenderer(gor.updater.arg)]
    /\ gor' = [gor EXCEPT !.updater.pc = "unlock"]
    /\ UNCHANGED <<tape, rpos, renderVars, probe>>

\* return nil, and the deferred cg.mutex.Unlock()
Unlock ==
    /\ gor.updater.pc = "unlock"
    /\ cg' = [cg EXCEPT !.mutex = "unlocked"]
    /\ gor' = [gor EXCEPT !.updater.pc = "done"]
    /\ UNCHANGED <<tape, rpos, renderVars, probe>>

GenNext ==
    \/ GenerateMultipleEnter
    \/ GenerateMultipleLoop
    \/ CreateMathExpr
    \/ CreateMathExprWithOptions
    \/ TakeOptions
    \/ Generate
    \/ ReadRenderer
    \/ CompareConfig
    \/ Render
    \/ UpdateConfigEnter
    \/ Lock
    \/ WriteConfig
    \/ WriteMathGen
    \/ WriteRenderer
    \/ Unlock

GenSpec == GenInit /\ [][GenNext]_vars

(***************************************************************************)
(* The functions of the library called on their own: one call of one       *)
(* function, its input and what it returned kept in probe.                 *)
(***************************************************************************)
\* the color managers: the two NewColorManager builds, and &ColorManager{}
EmptyColorManager ==
    [enableColor |-> FALSE, background |-> "",
     textColors |-> <<>>, noiseColors |-> <<>>]

ColorManagers ==
    {NewColorManager(DefaultConfig), NewColorManager(CustomConfig),
     EmptyColorManager}

\* the configurations given to Validate: every combination of values at and
\* around the limits of its conditions
ValidateConfigs ==
    {[DefaultConfig EXCEPT !.MathMin = a, !.MathMax = b, !.Width = w,
                           !.Height = h, !.FontSize = f, !.Noise = n] :
        a \in {-1, 0, 1}, b \in {0, 1, 9}, w \in {0, 150}, h \in {0, 50},
        f \in {0, 20}, n \in {-1, 0, NoiseLimit, NoiseLimit + 1}}
    \cup {[DefaultConfig EXCEPT !.Width = -150],
          [DefaultConfig EXCEPT !.Height = -50],
          [DefaultConfig EXCEPT !.FontSize = -20],
          DefaultConfig, CustomConfig}

\* the configurations of the math generators: the default one, the one of
\* the tests, a wide one and the narrowest one
MathConfigs ==
    {DefaultConfig, CustomConfig, UpdatedConfig,
     [DefaultConfig EXCEPT !.MathMin = 0, !.MathMax = 1,
                           !.MathOperator = <<"-">>]}

FnInit ==
    /\ tape \in Tapes
    /\ rpos = 0
    /\ sr = NewSVGRenderer(DefaultConfig)
    /\ noiseImpl = "line"
    /\ config = DefaultConfig
    /\ question = <<>>
    /\ pc = [c \in Calls |-> "idle"]
    /\ yOffset = [c \in Calls |-> 0]
    /\ svg = [c \in Calls |-> NoSVG]
    /\ data = [c \in Calls |-> <<>>]
    /\ err = [c \in Calls |-> NoError]
    /\ cg = NoGenerator
    /\ gor = <<>>
    /\ probe = NoProbe

CallGetRandomTextColor ==
    /\ probe.fn = "none"
    /\ \E cm \in ColorManagers :
          /\ probe' = [fn |-> "GetRandomTextColor", cm |-> cm,
                       out |-> GetRandomTextColor(cm, rpos).val]
          /\ rpos' = GetRandomTextColor(cm, rpos).pos % TapeLen
    /\ UNCHANGED <<tape, renderVars, cg, gor>>

CallGetRandomNoiseColor ==
    /\ probe.fn = "none"
    /\ \E cm \in ColorManagers :
          /\ probe' = [fn |-> "GetRandomNoiseColor", cm |-> cm,
                       out |-> GetRandomNoiseColor(cm, rpos).val]
          /\ rpos' = GetRandomNoiseColor(cm, rpos).pos % TapeLen
    /\ UNCHANGED <<tape, renderVars, cg, gor>>

CallValidate ==
    /\ probe.fn = "none"
    /\ \E c \in ValidateConfigs :
          probe' = [fn |-> "Validate", cfg |-> c, out |-> Validate(c)]
    /\ UNCHANGED <<tape, rpos, renderVars, cg, gor>>

CallGenerateAddition ==
    /\ probe.fn = "none"
    /\ \E c \in MathConfigs :
          /\ probe' = [fn  |-> "GenerateAddition", cfg |-> c,
                       out |-> GenerateAddition(
                                   NewMathExpressionGenerator(c), rpos)]
          /\ rpos' = GenerateAddition(NewMathExpressionGenerator(c),
                                      rpos).pos % TapeLen
    /\ UNCHANGED <<tape, renderVars, cg, gor>>

CallGenerateSubtraction ==
    /\ probe.fn = "none"
    /\ \E c \in MathConfigs :
          /\ probe' = [fn  |-> "GenerateSubtraction", cfg |-> c,
                       out |-> GenerateSubtraction(
                                   NewMathExpressionGenerator(c), rpos)]
          /\ rpos' = GenerateSubtraction(NewMathExpressionGenerator(c),
                                         rpos).pos % TapeLen
    /\ UNCHANGED <<tape, renderVars, cg, gor>>

\* GenerateLines(2, 150, 50, colorMgr) of either implementation, and
\* GenerateDots(2, 150, 50, colorMgr)
NoiseProbe(fn, r) ==
    /\ probe' = [fn |-> fn, out |-> r.val]
    /\ rpos' = r.pos % TapeLen

CallNoiseGenerator ==
    /\ probe.fn = "none"
    /\ \/ NoiseProbe("GenerateLines",
                     GenerateLines(2, sr.width, sr.height, sr.colorMgr, rpos))
       \/ NoiseProbe("GenerateLinesPath",
                     GenerateLinesPath(2, sr.width, sr.height, sr.colorMgr,
                                       rpos))
       \/ NoiseProbe("GenerateDots",
                     GenerateDots(2, sr.width, sr.height, sr.colorMgr, rpos))
    /\ UNCHANGED <<tape, renderVars, cg, gor>>

\* the segments given to the wave family of generateCurvePath, start and
\* end point in units: a diagonal, a vertical and a horizontal segment, and
\* two segments of length zero
Segments ==
    {<<0, 0, 150, 50>>, <<10, 10, 10, 40>>, <<120, 25, 20, 25>>,
     <<30, 40, 30, 40>>, <<0, 0, 0, 0>>}

WaveProbe(seg, r) ==
    /\ probe' = [fn |-> "WavePath", seg |-> seg, out |-> r.val]
    /\ rpos' = r.pos % TapeLen

CallWavePath ==
    /\ probe.fn = "none"
    /\ \E seg \in Segments :
          WaveProbe(seg, WavePath(seg[1] * FScale, seg[2] * FScale,
                                  seg[3] * FScale, seg[4] * FScale, rpos))
    /\ UNCHANGED <<tape, renderVars, cg, gor>>

FnNext ==
    \/ CallWavePath
    \/ CallNoiseGenerator
    \/ CallGetRandomTextColor
    \/ CallGetRandomNoiseColor
    \/ CallValidate
    \/ CallGenerateAddition
    \/ CallGenerateSubtraction

FnSpec == FnInit /\ [][FnNext]_vars

(***************************************************************************)
(* The configuration of a CaptchaGenerator as the pointer it is.  The heap *)
(* holds the Config values, a *Config is an index of the heap and 0 is     *)
(* nil.  One client builds a generator and calls it MaxOps times; it can   *)
(* pass the configurations it owns and those GetConfig gave it, and write  *)
(* to the fields of the latter.                                            *)
(***************************************************************************)
\* the configurations of the client before NewCaptchaGenerator
ClientConfigs == <<UpdatedConfig, InvalidConfig, OptsConfig>>

\* the assignments of the client to a field of a configuration
ChangeField(c, f) ==
    CASE f = "Width"      -> [c EXCEPT !.Width = 0]
      [] f = "Background" -> [c EXCEPT !.Background = "#000000"]
      [] f = "MathMax"    -> [c EXCEPT !.MathMax = 99]

Fields == {"Width", "Background", "MathMax"}

\* NewCaptchaGenerator(config) with the configuration at address a
CfgNewCaptchaGenerator(heap, a) ==
    LET replaced == IF a = 0 THEN TRUE ELSE Validate(heap[a]) # NoError
        h == IF replaced THEN Append(heap, DefaultConfig) ELSE heap
        c == IF replaced THEN Len(h) ELSE a
    IN [heap |-> h,
        cg   |-> [config      |-> c,
                  mathGen     |-> NewMathExpressionGenerator(h[c]),
                  svgRenderer |-> NewSVGRenderer(h[c]),
                  mutex       |-> "unlocked"]]

\* the client before its first call
NewClient(a) ==
    [n |-> 0, op |-> "NewCaptchaGenerator", arg |-> a,
     known |-> 0..Len(ClientConfigs), got |-> {}, changed |-> FALSE,
     err |-> NoError, result |-> NoResult]

CfgInit ==
    /\ tape \in GenTapes
    /\ rpos = 0
    /\ sr = NewSVGRenderer(DefaultConfig)
    /\ noiseImpl = "line"
    /\ config = DefaultConfig
    /\ question = <<>>
    /\ pc = [c \in Calls |-> "idle"]
    /\ yOffset = [c \in Calls |-> 0]
    /\ svg = [c \in Calls |-> NoSVG]
    /\ data = [c \in Calls |-> <<>>]
    /\ err = [c \in Calls |-> NoError]
    /\ \E a \in 0..Len(ClientConfigs) :
          /\ cg = CfgNewCaptchaGenerator(ClientConfigs, a).cg
          /\ probe = [fn |-> "heap",
                      heap |-> CfgNewCaptchaGenerator(ClientConfigs, a).heap]
          /\ gor = [client |-> NewClient(a)]

\* UpdateConfig(config) without the call of Validate
CfgUpdateConfig_unchecked ==
    /\ gor.client.n < MaxOps
    /\ \E a \in gor.client.known :
          LET e == IF a = 0 THEN ErrInvalidConfig ELSE NoError
          IN /\ cg' = IF e # NoError THEN cg
                      ELSE [cg EXCEPT
                              !.config = a,
                              !.mathGen = NewMathExpressionGenerator(
                                              probe.heap[a]),
                              !.svgRenderer = NewSVGRenderer(probe.heap[a])]
             /\ gor' = [gor EXCEPT !.client.n = @ + 1,
                                   !.client.op = "UpdateConfig",
                                   !.client.arg = a,
                                   !.client.err = e]
    /\ UNCHANGED <<tape, rpos, renderVars, probe>>

\* UpdateConfig(config) with the configuration at address a
CfgUpdateConfig ==
    /\ gor.client.n < MaxOps
    /\ \E a \in gor.client.known :
          LET e == IF a = 0 THEN ErrInvalidConfig
                   ELSE Validate(probe.heap[a])
          IN /\ cg' = IF e # NoError THEN cg
                      ELSE [cg EXCEPT
                              !.config = a,
                              !.mathGen = NewMathExpressionGenerator(
                                              probe.heap[a]),
                              !.svgRenderer = NewSVGRenderer(probe.heap[a])]
             /\ gor' = [gor EXCEPT !.client.n = @ + 1,
                                   !.client.op = "UpdateConfig",
                                   !.client.arg = a,
                                   !.client.err = e]
    /\ UNCHANGED <<tape, rpos, renderVars, probe>>

\* configCopy := *cg.config; return &configCopy
CfgGetConfig ==
    /\ gor.client.n < MaxOps
    /\ probe' = [probe EXCEPT !.heap = Append(@, probe.heap[cg.config])]
    /\ gor' = [gor EXCEPT !.client.n = @ + 1,
                          !.client.op = "GetConfig",
                          !.client.arg = Len(probe.heap) + 1,
                          !.client.known = @ \cup {Len(probe.heap) + 1},
                          !.client.got = @ \cup {Len(probe.heap) + 1},
                          !.client.err = NoError]
    /\ UNCHANGED <<tape, rpos, renderVars, cg>>

\* the client assigns to a field of a configuration GetConfig returned
CfgChangeField ==
    /\ gor.client.n < MaxOps
    /\ \E a \in gor.client.got, f \in Fields :
          /\ probe' = [probe EXCEPT !.heap[a] = ChangeField(@, f)]
          /\ gor' = [gor EXCEPT !.client.n = @ + 1,
                                !.client.op = "ChangeField",
                                !.client.arg = a,
                                !.client.changed = TRUE,
                                !.client.err = NoError]
    /\ UNCHANGED <<tape, rpos, renderVars, cg>>

\* CreateMathExpr() of the client, no other goroutine running
CfgResult(opts, e, r) ==
    [pos    |-> IF Validate(opts) # NoError \/ e.err # NoError
                THEN (IF Validate(opts) # NoError THEN rpos ELSE e.pos)
                ELSE r.pos,
     err    |-> IF Validate(opts) # NoError THEN Validate(opts)
                ELSE IF e.err # NoError THEN e.err
                ELSE r.err,
     result |-> IF Validate(opts) # NoError \/ e.err # NoError
                   \/ r.err # NoError
                THEN NoResult
                ELSE NewCaptchaResult(r.data, e.expr)]

CfgCreateWith(res) ==
    /\ rpos' = res.pos % TapeLen
    /\ gor' = [gor EXCEPT !.client.n = @ + 1,
                          !.client.op = "CreateMathExpr",
                          !.client.arg = cg.config,
                          !.client.err = res.err,
                          !.client.result = res.result]

CfgRender(opts, e) ==
    CfgCreateWith(CfgResult(opts, e,
                     RenderMathExpression(cg.svgRenderer, e.expr, opts,
                                          noiseImpl, e.pos)))

CfgCreateMathExpr ==
    /\ gor.client.n < MaxOps
    /\ CfgRender(probe.heap[cg.config], GenerateExpression(cg.mathGen, rpos))
    /\ UNCHANGED <<tape, renderVars, cg, probe>>

CfgNext ==
    \/ CfgUpdateConfig
    \/ CfgGetConfig
    \/ CfgChangeField
    \/ CfgCreateMathExpr

CfgSpec == CfgInit /\ [][CfgNext]_vars

(***************************************************************************)
(* The example server.  net/http serves every connection in a goroutine of *)
(* its own, and main starts one more goroutine that calls cleanupSessions  *)
(* on a ticker; all of them use the map s.sessions, which no lock guards.  *)
(* A handler takes one step per access to the map.  probe holds the server *)
(* beside its generator cg: the clock, the Session objects (a *Session is  *)
(* an index of probe.heap), the map, the cookies set so far, the number of *)
(* requests taken and the validations answered with valid true.  The clock *)
(* counts minutes; calls of time.Now() within one reading of the clock get *)
(* the same instant, as they do on a clock of coarse resolution, so two    *)
(* session IDs can coincide.                                               *)
(***************************************************************************)
\* the configuration of NewServer
ServerConfig ==
    [MathMin |-> 1, MathMax |-> 10, MathOperator |-> <<"+">>,
     Width |-> 200, Height |-> 60, FontSize |-> 24, Noise |-> 2,
     Color |-> TRUE, Background |-> "#f8f9fa", IgnoreChars |-> ""]

\* the connections, one goroutine each
Conns == {1, 2}

ServerTapes ==
    {[i \in 1..TapeLen |-> 0], [i \in 1..TapeLen |-> 2],
     [i \in 1..TapeLen |-> IF i = 1 THEN -1 ELSE 1]}

\* a request without the cookie captcha_session, a body that is not JSON
NoCookie == -1
BadBody  == <<"{">>

\* a goroutine between two requests of its connection
NewConn ==
    [pc |-> "idle", path |-> "", cookie |-> NoCookie, answer |-> <<>>,
     result |-> <<>>, sessionID |-> NoCookie, session |-> 0,
     status |-> 0, message |-> ""]

\* the response of a handler, which returns: its locals are gone
Respond(g, status, message) ==
    [NewConn EXCEPT !.path = g.path, !.status = status, !.message = message]

\* delete(s.sessions, id)
DeleteSession(sessions, id) == {e \in sessions : e.id # id}

cleanupSessions(sessions, heap, now) ==
    {e \in sessions : ~(now > heap[e.session].ExpiresAt)}

\* the requests to /validate: the answer of a session or a wrong one, with
\* a cookie the server has set or without one
ValidateRequests ==
    {[method |-> "GET", answer |-> <<"0">>, cookie |-> NoCookie],
     [method |-> "POST", answer |-> BadBody, cookie |-> NoCookie]}
    \cup {[method |-> "POST", answer |-> a, cookie |-> c] :
              a \in {probe.heap[i].Answer : i \in 1..Len(probe.heap)}
                        \cup {<<"0">>},
              c \in probe.issued \cup {NoCookie}}

ServerInit ==
    /\ tape \in ServerTapes
    /\ rpos = 0
    /\ sr = NewSVGRenderer(DefaultConfig)
    /\ noiseImpl = "line"
    /\ config = DefaultConfig
    /\ question = <<>>
    /\ pc = [c \in Calls |-> "idle"]
    /\ yOffset = [c \in Calls |-> 0]
    /\ svg = [c \in Calls |-> NoSVG]
    /\ data = [c \in Calls |-> <<>>]
    /\ err = [c \in Calls |-> NoError]
    /\ cg = NewCaptchaGenerator(ServerConfig)
    /\ gor = [h \in Conns |-> NewConn]
    /\ probe = [fn |-> "server", now |-> 0, heap |-> <<>>, sessions |-> {},
                issued |-> {}, served |-> 0, valid |-> <<>>,
                fatal |-> FALSE]

\* generateCaptcha up to the session ID
ServeCaptcha(h, res) ==
    /\ rpos' = res.pos % TapeLen
    /\ gor' = [gor EXCEPT ![h] =
                 IF res.err # NoError
                 THEN Respond([NewConn EXCEPT !.path = "/captcha"], 500,
                              "Failed to generate captcha")
                 ELSE [NewConn EXCEPT !.path = "/captcha", !.pc = "store",
                                      !.result = res.result.Text]]
    /\ probe' = [probe EXCEPT !.served = @ + 1]

ServerRender(h, e) ==
    ServeCaptcha(h, CfgResult(cg.config, e,
                     RenderMathExpression(cg.svgRenderer, e.expr, cg.config,
                                          noiseImpl, e.pos)))

GenerateCaptcha(h) ==
    /\ ~probe.fatal
    /\ gor[h].pc = "idle"
    /\ probe.served < MaxRequests
    /\ ServerRender(h, GenerateExpression(cg.mathGen, rpos))
    /\ UNCHANGED <<tape, renderVars, cg>>

\* s.sessions[sessionID] = &Session{...}
StoreSession(h) ==
    /\ ~probe.fatal
    /\ gor[h].pc = "store"
    /\ probe' = [probe EXCEPT
                   !.heap = Append(@, [Answer    |-> gor[h].result,
                                       CreatedAt |-> probe.now,
                                       ExpiresAt |-> probe.now + SessionLife]),
                   !.sessions = DeleteSession(@, probe.now)
                                \cup {[id |-> probe.now,
                                       session |-> Len(probe.heap) + 1]}]
    /\ gor' = [gor EXCEPT ![h].pc = "cleanup", ![h].sessionID = probe.now]
    /\ UNCHANGED <<tape, rpos, renderVars, cg>>

\* s.cleanupSessions(), the cookie and the image
SendCaptcha(h) ==
    /\ ~probe.fatal
    /\ gor[h].pc = "cleanup"
    /\ probe' = [probe EXCEPT
                   !.sessions = cleanupSessions(@, probe.heap, probe.now),
                   !.issued = @ \cup {gor[h].sessionID}]
    /\ gor' = [gor EXCEPT ![h] = Respond(@, 200, "image/svg+xml")]
    /\ UNCHANGED <<tape, rpos, renderVars, cg>>

\* validateCaptcha up to session, exists := s.sessions[cookie.Value]
ValidateCaptcha(h) ==
    /\ ~probe.fatal
    /\ gor[h].pc = "idle"
    /\ probe.served < MaxRequests
    /\ \E r \in ValidateRequests :
          LET g == [NewConn EXCEPT !.path = "/validate",
                                   !.cookie = r.cookie, !.answer = r.answer]
              found == {e \in probe.sessions : e.id = r.cookie}
          IN gor' = [gor EXCEPT ![h] =
                 IF r.method # "POST"
                 THEN Respond(g, 405, "Method not allowed")
                 ELSE IF r.answer = BadBody
                 THEN Respond(g, 400, "Invalid request body")
                 ELSE IF r.cookie = NoCookie
                 THEN Respond(g, 400, "No captcha session found")
                 ELSE IF found = {}
                 THEN Respond(g, 400, "Invalid or expired session")
                 ELSE [g EXCEPT !.pc = "found",
                                !.session = (CHOOSE e \in found : TRUE).session]]
    /\ probe' = [probe EXCEPT !.served = @ + 1]
    /\ UNCHANGED <<tape, rpos, renderVars, cg>>

\* validateCaptcha from the check of ExpiresAt on
AnswerValidate(h) ==
    /\ ~probe.fatal
    /\ gor[h].pc = "found"
    /\ LET session == probe.heap[gor[h].session]
       IN IF probe.now > session.ExpiresAt
          THEN /\ probe' = [probe EXCEPT
                              !.sessions = DeleteSession(@, gor[h].cookie)]
               /\ gor' = [gor EXCEPT ![h] =
                             Respond(@, 400, "Captcha expired")]
          ELSE IF session.Answer = gor[h].answer
          THEN /\ probe' = [probe EXCEPT
                              !.sessions = DeleteSession(@, gor[h].cookie),
                              !.valid = Append(@, [session |-> gor[h].session,
                                                   now |-> probe.now])]
               /\ gor' = [gor EXCEPT ![h] =
                             Respond(@, 200, "Captcha validation successful")]
          ELSE /\ probe' = probe
               /\ gor' = [gor EXCEPT ![h] =
                             Respond(@, 200, "Captcha validation failed")]
    /\ UNCHANGED <<tape, rpos, renderVars, cg>>

\* the goroutine of main: server.cleanupSessions() on every tick
Ticker ==
    /\ ~probe.fatal
    /\ probe' = [probe EXCEPT
                   !.sessions = cleanupSessions(@, probe.heap, probe.now)]
    /\ UNCHANGED <<tape, rpos, renderVars, cg, gor>>

\* a minute passes
Tick ==
    /\ ~probe.fatal
    /\ probe.now < MaxClock
    /\ probe' = [probe EXCEPT !.now = @ + 1]
    /\ UNCHANGED <<tape, rpos, renderVars, cg, gor>>

\* a write of the map meets another access of the map: the accesses are
\* taken one after the other as above, or the runtime ends the program
\* with "fatal error: concurrent map writes"
Throw ==
    /\ ~probe.fatal
    /\ \E h \in Conns : gor[h].pc \in {"store", "cleanup", "found"}
    /\ probe' = [probe EXCEPT !.fatal = TRUE]
    /\ UNCHANGED <<tape, rpos, renderVars, cg, gor>>

ServerNext ==
    \/ \E h \in Conns :
          \/ GenerateCaptcha(h)
          \/ StoreSession(h)
          \/ SendCaptcha(h)
          \/ ValidateCaptcha(h)
          \/ AnswerValidate(h)
    \/ Ticker
    \/ Tick
    \/ Throw

ServerSpec == ServerInit /\ [][ServerNext]_vars

(***************************************************************************)
(* Vocabulary of the properties.                                           *)
(***************************************************************************)
Started(c)   == pc[c] # "idle"
TextDone(c)  == pc[c] \in {"noise", "marshal", "done"}
NoiseDone(c) == pc[c] \in {"marshal", "done"}
Done(c)      == pc[c] = "done"

\* the root start tag and the element tokens of a returned document
RootOf(d)     == d[2]
ElementsOf(d) == SubSeq(d, 3, Len(d) - 1)

\* the tokens of a returned document that carry one of the tags
Tagged(d, tags) == SelectSeq(SubSeq(d, 2, Len(d)), LAMBDA t : t.tag \in tags)

TagsOf(toks) == [i \in 1..Len(toks) |-> toks[i].tag]

ContentsOf(texts) == [i \in 1..Len(texts) |-> texts[i].Content]

NonSpace(s) == SelectSeq(s, LAMBDA ch : ch # " ")

\* the 0-based positions of the non-space characters of a text, in order
RECURSIVE NonSpaceIndexes(_, _)
NonSpaceIndexes(s, i) ==
    IF i >= Len(s) THEN <<>>
    ELSE (IF s[i + 1] = " " THEN <<>> ELSE <<i>>) \o NonSpaceIndexes(s, i + 1)

\* a question with its " = ?" suffix replaced by " = "
SuffixReplaced(q) ==
    LET n == Len(q)
    IN IF n >= 4 /\ SubSeq(q, n - 3, n) = <<" ", "=", " ", "?">>
       THEN SubSeq(q, 1, n - 4) \o <<" ", "=", " ">>
       ELSE q

CurveTags == {"path", "line"}
DotTags   == {"circle"}

\* the configuration the renderer was constructed from
RendererConfig == CHOOSE b \in {x[1] : x \in Builds} : sr = NewSVGRenderer(b)

NoFailure == \A i \in 1..TapeLen : tape[i] >= 0

C2_GlyphsAreNonSpaceChars ==
    \A c \in Calls :
        /\ TextDone(c) =>
              ContentsOf(svg[c].Texts) = NonSpace(SuffixReplaced(question))
        /\ Done(c) =>
              LET toks == Tagged(data[c], {"text"})
              IN [i \in 1..Len(toks) |-> toks[i].el.Content]
                     = NonSpace(SuffixReplaced(question))

\* "12 - 7 = ?" has been rendered as the five glyphs 1, 2, -, 7, =
C2_Witness ==
    /\ Done(1)
    /\ question = Question(12, "-", 7)
    /\ ContentsOf(svg[1].Texts) = <<"1", "2", "-", "7", "=">>

(***************************************************************************)
(* C3: the scenario of TestSVGRenderer: "3 + 5 = ?" rendered with the      *)
(* default configuration (150 x 50, font 20, noise 1, color, #f0f0f0).     *)
(***************************************************************************)
C3_Scenario(c) ==
    /\ Done(c)
    /\ config = DefaultConfig
    /\ sr = NewSVGRenderer(DefaultConfig)
    /\ question = <<"3", " ", "+", " ", "5", " ", "=", " ", "?">>

C3_Rest(c) ==
    LET d     == data[c]
        rects == Tagged(d, {"rect"})
    IN /\ Len(Tagged(d, CurveTags)) <= 2
       /\ Len(Tagged(d, DotTags)) <= 3
       /\ RootOf(d).width = <<"1", "5", "0">>
       /\ RootOf(d).height = <<"5", "0">>
       /\ Len(rects) = 1
       /\ rects[1].el.fill = "#f0f0f0"

\* C3 as claimed: exactly the 3 glyphs 3, +, 5
C3_ThreeGlyphs ==
    \A c \in Calls : C3_Scenario(c) =>
        /\ ContentsOf(svg[c].Texts) = <<"3", "+", "5">>
        /\ Len(Tagged(data[c], {"text"})) = 3
        /\ C3_Rest(c)

\* C3 as amended: exactly the 4 glyphs 3, +, 5, = (the "=" of the suffix
\* is kept and drawn), at most 2 curves, at most 3 dots, width="150",
\* height="50" and one background rectangle filled #f0f0f0
C3_FourGlyphs ==
    \A c \in Calls : C3_Scenario(c) =>
        /\ ContentsOf(svg[c].Texts) = <<"3", "+", "5", "=">>
        /\ Len(Tagged(data[c], {"text"})) = 4
        /\ C3_Rest(c)

\* the scenario has run with every noise element drawn: 2 curves, 3 dots
C3_Witness ==
    /\ C3_Scenario(1)
    /\ Len(Tagged(data[1], CurveTags)) = 2
    /\ Len(Tagged(data[1], DotTags)) = 3

(***************************************************************************)
(* C4: in every serialized document the elements come in the order         *)
(* background rectangle, glyphs, curve noise, dot noise.                   *)
(***************************************************************************)
Layer(tag) ==
    CASE tag = "rect" -> 1
      [] tag = "text" -> 2
      [] tag \in CurveTags -> 3
      [] tag \in DotTags -> 4
      [] OTHER -> 0

C4_ElementOrder ==
    \A c \in Calls : Done(c) =>
        LET els == ElementsOf(data[c])
        IN /\ Len(els) >= 1
           /\ els[1].tag = "rect"
           /\ \A i \in 1..Len(els) : Layer(els[i].tag) >= 1
           /\ \A i, j \in 1..Len(els) :
                  i < j => Layer(els[i].tag) <= Layer(els[j].tag)

\* a returned document with glyphs, at least two curves and two dots
C4_Witness ==
    /\ Done(1)
    /\ Len(Tagged(data[1], {"text"})) >= 1
    /\ Len(Tagged(data[1], CurveTags)) >= 2
    /\ Len(Tagged(data[1], DotTags)) >= 2

(***************************************************************************)
(* C5: for a noise level N > 0 the document holds at most 2N curve-noise   *)
(* elements and at most 3N dot-noise elements, whatever draws fail.        *)
(***************************************************************************)
C5_NoiseCounts ==
    \A c \in Calls : config.Noise > 0 =>
        /\ NoiseDone(c) =>
              /\ Len(svg[c].Lines) <= 2 * config.Noise
              /\ Len(svg[c].Circles) <= 3 * config.Noise
        /\ Done(c) =>
              /\ Len(Tagged(data[c], CurveTags)) <= 2 * config.Noise
              /\ Len(Tagged(data[c], DotTags)) <= 3 * config.Noise

\* noise level 2: all 4 curves were drawn and a failed draw dropped a dot
C5_Witness ==
    /\ Done(1)
    /\ config.Noise = 2
    /\ Len(svg[1].Lines) = 4
    /\ Len(svg[1].Circles) \in 1..5

(***************************************************************************)
(* C6: with a noise level of 0 or less the document holds no curve, line   *)
(* or dot element.                                                         *)
(***************************************************************************)
C6_NoNoiseAtLevelZero ==
    \A c \in Calls : config.Noise <= 0 =>
        /\ Started(c) =>
              /\ svg[c].Paths = <<>>
              /\ svg[c].Lines = <<>>
              /\ svg[c].Circles = <<>>
        /\ Done(c) => Tagged(data[c], CurveTags \cup DotTags) = <<>>

\* a document of noise level 0 has been returned, glyphs and nothing else
C6_Witness ==
    /\ Done(1)
    /\ config.Noise = 0
    /\ TagsOf(ElementsOf(data[1])) = <<"rect", "text", "text", "text", "text", "text">>

(***************************************************************************)
(* C7: every glyph's rotation lies within [-15, 15] degrees and its x and  *)
(* y differ from the unjittered baseline (startX + index * charWidth,      *)
(* baseY + yOffset) by at most 3 units, also when a draw fails.            *)
(***************************************************************************)
C7_JitterBounds ==
    \A c \in Calls : TextDone(c) =>
        LET text == SuffixReplaced(question)
            idx  == NonSpaceIndexes(text, 0)
            fs   == sr.fontSize
            x0   == (sr.width * FScale - Len(text) * fs * 6 * (FScale \div 10))
                        \div 2
            y0   == sr.height * (FScale \div 2) + fs * (FScale \div 3)
                        + yOffset[c]
        IN /\ Len(svg[c].Texts) = Len(idx)
           /\ \A k \in 1..Len(svg[c].Texts) :
                LET g == svg[c].Texts[k]
                IN /\ Abs(g.X - (x0 + idx[k] * fs * 6 * (FScale \div 10)))
                          <= 3 * FScale
                   /\ Abs(g.Y - y0) <= 3 * FScale
                   /\ g.Transform.fn = "rotate"
                   /\ Abs(g.Transform.angle) <= 15 * FScale

\* the x-jitter draw of the first glyph failed (the tape's second entry:
\* the first is the line offset) and the glyph sits 3 units left of its
\* baseline; its rotation draw gave the greatest value, written "15.0"
C7_Witness ==
    /\ TextDone(1)
    /\ tape[2] = -1
    /\ tape[4] = 2
    /\ svg[1].Texts[1].X
           = (sr.width * FScale
                - Len(SuffixReplaced(question)) * sr.fontSize * 6 * (FScale \div 10))
                 \div 2 - 3 * FScale
    /\ svg[1].Texts[1].Transform.angle = 15 * FScale

(***************************************************************************)
(* C8: every curve has a stroke width within [0.5, 2.0] and every dot a    *)
(* radius within [1.0, 4.0], the fallback values included.                 *)
(***************************************************************************)
StrokeWidthOf(e) == IF e.tag = "line" THEN e.Width ELSE e.StrokeWidth

C8_WidthAndRadiusBounds ==
    \A c \in Calls : NoiseDone(c) =>
        /\ \A i \in 1..Len(svg[c].Lines) :
               /\ StrokeWidthOf(svg[c].Lines[i]) >= FScale \div 2
               /\ StrokeWidthOf(svg[c].Lines[i]) <= 2 * FScale
        /\ \A i \in 1..Len(svg[c].Circles) :
               /\ svg[c].Circles[i].R >= FScale
               /\ svg[c].Circles[i].R <= 4 * FScale

\* a document with a curve of the fallback width 1.0 (no draw gives 1.0)
\* and a dot of the fallback radius 2.0 (no draw gives 2.0)
C8_Witness ==
    /\ NoiseDone(1)
    /\ \E i \in 1..Len(svg[1].Lines) : StrokeWidthOf(svg[1].Lines[i]) = FScale
    /\ \E i \in 1..Len(svg[1].Circles) : svg[1].Circles[i].R = 2 * FScale

(***************************************************************************)
(* C9: two render calls with the same configuration and question.          *)
(***************************************************************************)
ShapeOf(c) == TagsOf(SubSeq(data[c], 2, Len(data[c])))

\* C9 as claimed: the two documents always have the same elements of the
\* same types in the same order
C9_SameShapeAlways ==
    (Done(1) /\ Done(2)) => ShapeOf(1) = ShapeOf(2)

\* C9 as amended: the two documents always have the same background and
\* glyph elements in the same order, and curve and dot elements of the same
\* types, at most 2N and 3N of them; the numbers of curves and dots are the
\* same when no draw of the random source fails, and can differ when one
\* does, because a curve or dot whose coordinate draw fails is left out
C9_SameShapeUnlessDrawsFail ==
    (Done(1) /\ Done(2)) =>
        /\ TagsOf(Tagged(data[1], {"svg", "rect", "text", "/svg"}))
               = TagsOf(Tagged(data[2], {"svg", "rect", "text", "/svg"}))
        /\ ContentsOf(svg[1].Texts) = ContentsOf(svg[2].Texts)
        /\ \A t1 \in {ShapeOf(1)[i] : i \in 1..Len(ShapeOf(1))} \cap CurveTags :
           \A t2 \in {ShapeOf(2)[i] : i \in 1..Len(ShapeOf(2))} \cap CurveTags :
               t1 = t2
        /\ \A c \in Calls :
               /\ Len(Tagged(data[c], CurveTags)) <= 2 * config.Noise \/ config.Noise <= 0
               /\ Len(Tagged(data[c], DotTags)) <= 3 * config.Noise \/ config.Noise <= 0
        /\ NoFailure => ShapeOf(1) = ShapeOf(2)

\* both calls have returned, no draw failed, and both documents hold the
\* glyphs, 4 curves and 6 dots of noise level 2
C9_Witness ==
    /\ Done(1) /\ Done(2)
    /\ NoFailure
    /\ config.Noise = 2
    /\ ShapeOf(1) = ShapeOf(2)
    /\ Len(Tagged(data[2], CurveTags)) = 4
    /\ Len(Tagged(data[2], DotTags)) = 6

(***************************************************************************)
(* C10: every document holds exactly one background rectangle, at (0,0),   *)
(* with the canvas width and height, filled with the background token of   *)
(* the configuration passed to the call.                                   *)
(***************************************************************************)
C10_BackgroundRect ==
    \A c \in Calls :
        /\ Started(c) => Len(svg[c].Background) = 1
        /\ Done(c) =>
              LET rects == Tagged(data[c], {"rect"})
              IN /\ Len(rects) = 1
                 /\ rects[1].el.x = <<"0">>
                 /\ rects[1].el.y = <<"0">>
                 /\ rects[1].el.width = RootOf(data[c]).width
                 /\ rects[1].el.height = RootOf(data[c]).height
                 /\ rects[1].el.fill = config.Background

\* a document returned by a renderer whose color manager was built with
\* another background than the one passed to the call
C10_Witness ==
    /\ Done(1)
    /\ GetBackgroundColor(sr.colorMgr) # config.Background
    /\ Tagged(data[1], {"rect"})[1].el.fill = "#ffffff"

(***************************************************************************)
(* C11: RenderMathExpression returns an error only when serialization      *)
(* fails: whatever draws of the random source fail during glyph layout,    *)
(* color selection and noise generation, no call ends with an error, and   *)
(* a call that has returned has returned a whole document.                 *)
(***************************************************************************)
C11_RandomFailuresAbsorbed ==
    \A c \in Calls :
        /\ err[c] = NoError
        /\ Done(c) =>
              /\ svg[c].Texts # <<>>
              /\ Len(data[c]) >= 4
              /\ data[c][1] = XMLHeader
              /\ RootOf(data[c]).tag = "svg"
              /\ data[c][Len(data[c])].tag = "/svg"

\* every draw of the random source fails, and the call has returned a
\* document with its five glyphs, no noise element and a nil error
C11_Witness ==
    /\ Done(1)
    /\ \A i \in 1..TapeLen : tape[i] = -1
    /\ config.Noise > 0
    /\ err[1] = NoError
    /\ TagsOf(ElementsOf(data[1]))
           = <<"rect", "text", "text", "text", "text", "text">>

(***************************************************************************)
(* C12: a CaptchaGenerator is safe to use from several goroutines: however *)
(* a CreateMathExpr call is interleaved with an UpdateConfig call, it      *)
(* reads the fields of the generator while no update holds the mutex, and  *)
(* the math generator and the renderer it uses are those of the            *)
(* configuration it uses.                                                  *)
(***************************************************************************)
C12_ConsistentReads ==
    LET g == gor.creator
    IN (g.req.call = "CreateMathExpr" /\ g.pc = "render") =>
           /\ g.unlocked
           /\ g.meg = NewMathExpressionGenerator(g.opts)
           /\ g.renderer = NewSVGRenderer(g.opts)

ColorsOf(colors) == {colors[i] : i \in 1..Len(colors)}

C14_ColorOrFallback ==
    /\ probe.fn = "GetRandomTextColor" =>
           /\ probe.out # ""
           /\ probe.cm.textColors # <<>> =>
                  probe.out \in ColorsOf(probe.cm.textColors)
           /\ probe.out = "#000000" <=> probe.cm.textColors = <<>>
    /\ probe.fn = "GetRandomNoiseColor" =>
           /\ probe.out # ""
           /\ probe.cm.noiseColors # <<>> =>
                  probe.out \in ColorsOf(probe.cm.noiseColors)
           /\ probe.out = "#cccccc" <=> probe.cm.noiseColors = <<>>

\* the draw failed and the first text color was returned
C14_Witness ==
    /\ probe.fn = "GetRandomTextColor"
    /\ tape[1] = -1
    /\ probe.cm.textColors # <<>>
    /\ probe.out = probe.cm.textColors[1]

(***************************************************************************)
(* C15: Config.Validate returns an error exactly when MathMin < 0, or      *)
(* MathMax <= MathMin, or Width <= 0, or Height <= 0, or FontSize <= 0, or *)
(* Noise < 0, or Noise > 10, and nil otherwise; DefaultConfig() is valid.  *)
(***************************************************************************)
C15_ValidateExactly ==
    /\ Validate(DefaultConfig) = NoError
    /\ probe.fn = "Validate" =>
           /\ probe.out \in {NoError, ErrInvalidConfig}
           /\ probe.out # NoError <=>
                  \/ probe.cfg.MathMin < 0
                  \/ probe.cfg.MathMax <= probe.cfg.MathMin
                  \/ probe.cfg.Width <= 0
                  \/ probe.cfg.Height <= 0
                  \/ probe.cfg.FontSize <= 0
                  \/ probe.cfg.Noise < 0
                  \/ probe.cfg.Noise > 10

\* a configuration whose only fault is MathMax = MathMin is rejected
C15_Witness ==
    /\ probe.fn = "Validate"
    /\ probe.cfg.MathMin = 1 /\ probe.cfg.MathMax = 1
    /\ probe.cfg.Width > 0 /\ probe.cfg.Height > 0
    /\ probe.cfg.FontSize > 0
    /\ probe.cfg.Noise = NoiseLimit
    /\ probe.out = ErrInvalidConfig

(***************************************************************************)
(* C16: an expression returned by GenerateAddition has the operator "+",   *)
(* both operands within [MathMin, MathMax], the sum of the operands as its *)
(* Answer and "<Operand1> + <Operand2> = ?" as its Question.               *)
(***************************************************************************)
C16_Addition ==
    (probe.fn = "GenerateAddition" /\ probe.out.err = NoError) =>
        LET e == probe.out.expr
        IN /\ e.Operator = "+"
           /\ e.Operand1 \in probe.cfg.MathMin..probe.cfg.MathMax
           /\ e.Operand2 \in probe.cfg.MathMin..probe.cfg.MathMax
           /\ e.Answer = e.Operand1 + e.Operand2
           /\ e.Question = Itoa(e.Operand1) \o <<" ", "+", " ">>
                               \o Itoa(e.Operand2) \o <<" ", "=", " ", "?">>

\* the least and the greatest operand of the range of the test configuration
C16_Witness ==
    /\ probe.fn = "GenerateAddition"
    /\ probe.out.err = NoError
    /\ probe.cfg = CustomConfig
    /\ probe.out.expr.Operand1 = 5
    /\ probe.out.expr.Operand2 = 15
    /\ probe.out.expr.Question
           = <<"5", " ", "+", " ", "1", "5", " ", "=", " ", "?">>

(***************************************************************************)
(* C17: an expression returned by GenerateSubtraction has the operator     *)
(* "-", Operand1 >= Operand2, the difference of the operands as its        *)
(* Answer, never negative, and a Question that shows the operands in the   *)
(* order of the returned fields.                                           *)
(***************************************************************************)
C17_Subtraction ==
    (probe.fn = "GenerateSubtraction" /\ probe.out.err = NoError) =>
        LET e == probe.out.expr
        IN /\ e.Operator = "-"
           /\ e.Operand1 >= e.Operand2
           /\ e.Answer = e.Operand1 - e.Operand2
           /\ e.Answer >= 0
           /\ e.Question = Itoa(e.Operand1) \o <<" ", "-", " ">>
                               \o Itoa(e.Operand2) \o <<" ", "=", " ", "?">>

\* the first operand drawn was the smaller one, and the operands were swapped
C17_Witness ==
    /\ probe.fn = "GenerateSubtraction"
    /\ probe.out.err = NoError
    /\ tape[1] = 0 /\ tape[2] = 2
    /\ probe.cfg = CustomConfig
    /\ probe.out.expr.Question
           = <<"1", "5", " ", "-", " ", "5", " ", "=", " ", "?">>
    /\ probe.out.expr.Answer = 10

(***************************************************************************)
(* C18: GenerateMultiple(count) returns an error and no results when       *)
(* count <= 0 or count > 100; for a count of 1..100 it returns either      *)
(* count results, each with a Data, a Text and a Question that are not     *)
(* empty, or an error and no results.                                      *)
(***************************************************************************)
C18_AllOrNothing ==
    LET g == gor.creator
    IN (g.req.call = "GenerateMultiple" /\ g.pc = "done") =>
           IF g.req.count <= 0 \/ g.req.count > 100
           THEN g.err # NoError /\ g.ret = <<>>
           ELSE \/ /\ g.err = NoError
                   /\ Len(g.ret) = g.req.count
                   /\ \A k \in 1..Len(g.ret) :
                          /\ g.ret[k].Data # <<>>
                          /\ g.ret[k].Text # <<>>
                          /\ g.ret[k].Question # <<>>
                \/ /\ g.err # NoError
                   /\ g.ret = <<>>

\* a call of the loop failed after an earlier one had succeeded
C18_Witness ==
    /\ gor.creator.req.call = "GenerateMultiple"
    /\ gor.creator.pc = "done"
    /\ gor.creator.req.count = MaxCount
    /\ gor.creator.results # <<>>
    /\ gor.creator.err = ErrMathGeneration
    /\ gor.creator.ret = <<>>

(***************************************************************************)
(* C19: the captcha that CreateMathExprWithOptions(opts) returns for valid *)
(* opts is generated according to opts: the image has the width, height    *)
(* and background of opts, both operands lie within                        *)
(* [opts.MathMin, opts.MathMax] and the operator is one of                 *)
(* opts.MathOperator.  No UpdateConfig call runs beside the call.          *)
(***************************************************************************)
C19_GeneratedFromOptions ==
    LET g == gor.creator
        o == gor.creator.req.arg
        d == gor.creator.result.Data
    IN (/\ g.req.call = "CreateMathExprWithOptions"
        /\ o # NilConfig
        /\ g.pc = "done"
        /\ g.err = NoError
        /\ gor.updater.pc = "start") =>
           /\ RootOf(d).width = Itoa(o.Width)
           /\ RootOf(d).height = Itoa(o.Height)
           /\ Tagged(d, {"rect"})[1].el.fill = o.Background
           /\ g.expr.Operand1 \in o.MathMin..o.MathMax
           /\ g.expr.Operand2 \in o.MathMin..o.MathMax
           /\ Contains(o.MathOperator, g.expr.Operator)

(***************************************************************************)
(* C20: a returned document holds no text element: every character of the  *)
(* expression that is not a space is drawn by a path element.              *)
(***************************************************************************)
C20_NoTextElements ==
    \A c \in Calls : Done(c) =>
        /\ Len(Tagged(data[c], {"text"})) = 0
        /\ Len(Tagged(data[c], {"path"})) >= Len(NonSpace(QuestionText(question)))

(***************************************************************************)
(* C21: GetConfig returns a copy of the configuration: whatever the calls  *)
(* before, an assignment to a field of a Config that GetConfig returned    *)
(* changes nothing of what a later GetConfig returns or a later            *)
(* CreateMathExpr uses (the configuration, the math generator and the      *)
(* renderer of the generator).                                             *)
(***************************************************************************)
C21_ReturnedConfigIsCopy ==
    [][(gor'.client.op = "ChangeField" /\ gor'.client.n = gor.client.n + 1)
          => /\ cg' = cg
             /\ probe'.heap[cg'.config] = probe.heap[cg.config]]_vars

(***************************************************************************)
(* C22: when the draw of the x jitter, of the y jitter or of the rotation  *)
(* of a glyph fails, the value used for it is zero, and the glyph is still *)
(* emitted.  Stated for the first glyph of the first call, whose draws are *)
(* the second, third and fourth of the tape.                               *)
(***************************************************************************)
C22_FailedDrawIsZero ==
    TextDone(1) =>
        /\ svg[1].Texts # <<>>
        /\ tape[2] = -1 =>
               svg[1].Texts[1].X = StartX(sr, QuestionText(question))
        /\ tape[3] = -1 => svg[1].Texts[1].Y = BaseY(sr) + yOffset[1]
        /\ tape[4] = -1 => svg[1].Texts[1].Transform.angle = 0

(***************************************************************************)
(* C23: in a loop of two iterations from the start of the tape, a curve    *)
(* with a failed coordinate draw (a dot with a failed centre draw) is left *)
(* out and the loop goes on with the next element; an element whose        *)
(* coordinates were drawn and whose stroke-width (radius) draw fails is    *)
(* emitted with the width 1.0 (the radius 2.0).                            *)
(***************************************************************************)
Drawn(ps) == \A p \in ps : TapeAt(p) >= 0

C23_SkipOrDefault ==
    /\ probe.fn \in {"GenerateLines", "GenerateLinesPath"} =>
           IF Drawn(0..3)
           THEN /\ Len(probe.out) >= 1
                /\ TapeAt(4) = -1 => StrokeWidthOf(probe.out[1]) = FScale
           ELSE IF Drawn(4..7)
           THEN /\ Len(probe.out) = 1
                /\ TapeAt(8) = -1 => StrokeWidthOf(probe.out[1]) = FScale
           ELSE Len(probe.out) = 0
    /\ probe.fn = "GenerateDots" =>
           IF Drawn(0..1)
           THEN /\ Len(probe.out) >= 1
                /\ TapeAt(2) = -1 => probe.out[1].R = 2 * FScale
           ELSE IF Drawn(2..3)
           THEN /\ Len(probe.out) = 1
                /\ TapeAt(4) = -1 => probe.out[1].R = 2 * FScale
           ELSE Len(probe.out) = 0

\* the first line was left out for a failed coordinate draw, the second was
\* emitted with the default width after a failed width draw
C23_Witness ==
    /\ probe.fn = "GenerateLines"
    /\ ~Drawn(0..3)
    /\ Drawn(4..7)
    /\ TapeAt(8) = -1
    /\ Len(probe.out) = 1
    /\ probe.out[1].Width = FScale

(***************************************************************************)
(* The points of a wave: the point of segment index i as emitted, the      *)
(* point of the straight segment it was displaced from, as written with    *)
(* two decimals, and the side of the start-to-end direction the            *)
(* displacement is on (1, -1, or 0 for none).                              *)
(***************************************************************************)
WavePoint(i)     == <<probe.out[i + 1].args[1], probe.out[i + 1].args[2]>>
WaveDx           == (probe.seg[3] - probe.seg[1]) * FScale
WaveDy           == (probe.seg[4] - probe.seg[2]) * FScale
StraightPoint(i) == <<Fmt2(probe.seg[1] * FScale + (WaveDx * i) \div 3),
                      Fmt2(probe.seg[2] * FScale + (WaveDy * i) \div 3)>>
Sign(x)          == IF x > 0 THEN 1 ELSE IF x < 0 THEN -1 ELSE 0
WaveSide(i) ==
    Sign(((WavePoint(i)[1] - StraightPoint(i)[1]) \div (FScale \div 100))
             * (probe.seg[2] - probe.seg[4])
         + ((WavePoint(i)[2] - StraightPoint(i)[2]) \div (FScale \div 100))
             * (probe.seg[3] - probe.seg[1]))
Degenerate == probe.seg[1] = probe.seg[3] /\ probe.seg[2] = probe.seg[4]

(***************************************************************************)
(* C24: in the wave family, every sub-segment point of a segment that is   *)
(* not degenerate is displaced from the straight segment by an amount that *)
(* is not zero, and the displacements of successive segment indexes are on *)
(* opposite sides of the segment.                                          *)
(***************************************************************************)
C24_AlternatingDisplacement ==
    (probe.fn = "WavePath" /\ ~Degenerate) =>
        /\ \A i \in 1..3 : WavePoint(i) # StraightPoint(i)
        /\ \A i \in 1..2 : /\ WaveSide(i) # 0
                            /\ WaveSide(i + 1) = -WaveSide(i)

(***************************************************************************)
(* C25: in the wave family, when start and end point are the same point,   *)
(* no perpendicular offset is applied: every emitted point is the start    *)
(* point.                                                                  *)
(***************************************************************************)
C25_DegenerateSegment ==
    (probe.fn = "WavePath" /\ Degenerate) =>
        /\ Len(probe.out) = 4
        /\ \A k \in 1..Len(probe.out) :
               \A j \in 1..Len(probe.out[k].args) :
                   probe.out[k].args[j] =
                       probe.seg[IF j % 2 = 1 THEN 1 ELSE 2] * FScale

\* the wave of a segment from (30, 40) to (30, 40)
C25_Witness ==
    /\ probe.fn = "WavePath"
    /\ probe.seg = <<30, 40, 30, 40>>
    /\ probe.out[3] = [cmd |-> "T", args |-> <<30 * FScale, 40 * FScale>>]
    /\ \A i \in 1..TapeLen : tape[i] = 2

(***************************************************************************)
(* C26: a space produces no glyph and still takes one character width      *)
(* (0.6 x font size): the x of the glyph of the character at position i of *)
(* the text, without its jitter, is startX + i x charWidth, where i counts *)
(* every character before it, spaces included, and                         *)
(* startX = (width - textLength x charWidth) / 2.  Stated for the first    *)
(* call, where the x jitter of the k-th glyph is draw 4(k-1)+1 of the      *)
(* tape.                                                                   *)
(***************************************************************************)
C26_SpacesAdvanceCursor ==
    TextDone(1) =>
        LET text      == SuffixReplaced(question)
            idx       == NonSpaceIndexes(text, 0)
            charWidth == (sr.fontSize * 6 * FScale) \div 10
            startX    == (sr.width * FScale - Len(text) * charWidth) \div 2
        IN /\ Len(svg[1].Texts) = Len(idx)
           /\ Len(idx) < Len(text)
           /\ \A k \in 1..Len(idx) :
                  /\ text[idx[k] + 1] = svg[1].Texts[k].Content
                  /\ svg[1].Texts[k].X - JitterDraw(4 * (k - 1) + 1).val
                         = startX + idx[k] * charWidth

\* "12 - 7 = ": the glyph of "7" is at position 5 of the text, after two
\* spaces, on a renderer of width 200 and font size 24
C26_Witness ==
    /\ TextDone(1)
    /\ question = Question(12, "-", 7)
    /\ sr = NewSVGRenderer(CustomConfig)
    /\ svg[1].Texts[4].Content = "7"
    /\ svg[1].Texts[4].X - JitterDraw(13).val
           = (200 * FScale - 9 * 144 * (FScale \div 10)) \div 2
                 + 5 * 144 * (FScale \div 10)

(***************************************************************************)
(* C27: for both values of the color flag, the text colors and the noise   *)
(* colors of the color manager are disjoint, and both sets stay as         *)
(* NewColorManager built them, whatever colors are drawn.                  *)
(***************************************************************************)
C27_DisjointFixedPalette ==
    /\ ColorsOf(sr.colorMgr.textColors) \cap ColorsOf(sr.colorMgr.noiseColors)
           = {}
    /\ sr.colorMgr.textColors # <<>>
    /\ sr.colorMgr.noiseColors # <<>>
    /\ \E b \in Builds :
           /\ b[1].Color = sr.colorMgr.enableColor
           /\ sr.colorMgr = NewColorManager(b[1])
    /\ \A flag \in BOOLEAN :
           LET cm == NewColorManager([DefaultConfig EXCEPT !.Color = flag])
           IN ColorsOf(cm.textColors) \cap ColorsOf(cm.noiseColors) = {}

\* two calls have drawn glyph and noise colors from a grayscale manager
C27_Witness ==
    /\ Done(1) /\ Done(2)
    /\ ~sr.colorMgr.enableColor
    /\ svg[2].Texts # <<>>
    /\ svg[2].Circles # <<>>
    /\ svg[2].Circles[1].Fill \in ColorsOf(GrayNoiseColors)
    /\ svg[2].Texts[1].Fill \in ColorsOf(GrayTextColors)

(***************************************************************************)
(* The red, green and blue components of the colors of grayscale mode.     *)
(***************************************************************************)
Components(color) ==
    CASE color = "#1a1a1a" -> <<26, 26, 26>>
      [] color = "#2c2c2c" -> <<44, 44, 44>>
      [] color = "#3f3f3f" -> <<63, 63, 63>>
      [] color = "#525252" -> <<82, 82, 82>>
      [] color = "#666666" -> <<102, 102, 102>>
      [] color = "#7a7a7a" -> <<122, 122, 122>>
      [] color = "#8d8d8d" -> <<141, 141, 141>>
      [] color = "#a0a0a0" -> <<160, 160, 160>>
      [] color = "#bdc3c7" -> <<189, 195, 199>>
      [] color = "#d5d5d5" -> <<213, 213, 213>>
      [] color = "#e8e8e8" -> <<232, 232, 232>>
      [] color = "#f2f2f2" -> <<242, 242, 242>>

Grayscale(color) ==
    /\ Components(color)[1] = Components(color)[2]
    /\ Components(color)[2] = Components(color)[3]

(***************************************************************************)
(* C28: with the color flag off, every text color and every noise color of *)
(* the color manager is a grayscale color, and so is the color of every    *)
(* glyph and of every noise element drawn.                                 *)
(***************************************************************************)
C28_GrayscaleOnly ==
    ~sr.colorMgr.enableColor =>
        /\ \A color \in ColorsOf(sr.colorMgr.textColors) : Grayscale(color)
        /\ \A color \in ColorsOf(sr.colorMgr.noiseColors) : Grayscale(color)
        /\ \A c \in Calls : NoiseDone(c) =>
               /\ \A i \in 1..Len(svg[c].Texts) :
                      Grayscale(svg[c].Texts[i].Fill)
               /\ \A i \in 1..Len(svg[c].Circles) :
                      Grayscale(svg[c].Circles[i].Fill)

\* the configuration at address a is nil or does not pass Validate
Rejected(heap, a) == IF a = 0 THEN TRUE ELSE Validate(heap[a]) # NoError

Successes(a) == {i \in DOMAIN probe.valid : probe.valid[i].session = a}

\* goroutine h answers a validation with the message m in this step
Answers(h, m) == gor[h].pc = "found" /\ gor'[h].message = m

(***************************************************************************)
(* C30: a stored session is validated successfully at most once, a         *)
(* successful validation deletes it from the map, no validation succeeds   *)
(* at a time after the ExpiresAt of its session, and a validation with a   *)
(* wrong answer leaves the map and the sessions as they were.              *)
(***************************************************************************)
C30_SessionValidatedOnce ==
    /\ [](\A a \in 1..Len(probe.heap) : Cardinality(Successes(a)) <= 1)
    /\ [](\A i \in DOMAIN probe.valid :
             probe.valid[i].now <= probe.heap[probe.valid[i].session].ExpiresAt)
    /\ [][\A h \in Conns :
            /\ Answers(h, "Captcha validation successful") =>
                  \A e \in probe'.sessions : e.session # gor[h].session
            /\ Answers(h, "Captcha validation failed") =>
                  /\ probe'.sessions = probe.sessions
                  /\ probe'.heap = probe.heap]_vars

====
